---- MODULE Spec2Model ----
(***************************************************************************)
(* Signal scoring (SmartModel) and single-asset rotation backtest          *)
(* (BacktestEngine) of app.py.                                             *)
(*                                                                         *)
(* Numbers.  The program computes in binary floating point.  Here every    *)
(* real quantity (price, money, shares, return, score) is an integer       *)
(* count of thousandths (Scale), the finest precision the program reports  *)
(* (prices are rounded to 3 decimals).  A product or quotient is rounded   *)
(* down to the next thousandth.  A pandas NaN is the value NaN, which      *)
(* every comparison treats as Python does: a comparison with NaN is false. *)
(***************************************************************************)
EXTENDS Integers, Sequences, FiniteSets, TLC

VARIABLES
    strategy_type,      \* SmartModel.strategy_type of the engine's strategy
    initial_capital,    \* run_backtest(initial_capital)
    all_data,           \* all_data rows of the trade dates processed so far
    i,                  \* loop index of run_backtest: the next date to process
    current_holding,    \* None, 'CASH' or an instrument code
    holding_shares,
    cash_position,
    trade_log,
    nav_history,
    decision_history,
    p_df,               \* predict(df, market_df): the frame under evaluation
    p_market,
    p_result,           \* what predict returned for it
    run_b,              \* run_backtest calls beside the engine's own: a second
                        \* run over other price data, the outcome of an
                        \* earlier call, or the locals of concurrent calls
    pc,                 \* where the engine is: "idle", or in the day "loop"
    ret,                \* what the last call on the strategy returned
    obs,                \* what the call's data load found: rows per instrument
                        \* and the number of trade dates
    h_scores,           \* should_hold_cash(all_scores, market_df): all_scores
    h_result,           \* what should_hold_cash returned for it
    r_frames,           \* get_recommendation: the frame fetched per instrument
    call_arg            \* the argument of the last query: a limit, a period,
                        \* or the closes handed to calculate_features

vars == <<strategy_type, initial_capital, all_data, i, current_holding,
          holding_shares, cash_position, trade_log, nav_history,
          decision_history, p_df, p_market, p_result, run_b,
          pc, ret, obs, h_scores, h_result, r_frames, call_arg>>

btvars == <<strategy_type, initial_capital, all_data, i, current_holding,
            holding_shares, cash_position, trade_log, nav_history,
            decision_history>>

pvars == <<p_df, p_market, p_result>>

evars == <<pc, ret, obs>>

hvars == <<h_scores, h_result>>

----------------------------------------------------------------------------
(* Fixed-point arithmetic *)

Scale == 1000

NaN == -999999999

notna(x) == x # NaN

\* Python comparisons: false when either side is NaN
Lt(a, b) == notna(a) /\ notna(b) /\ a < b
Gt(a, b) == notna(a) /\ notna(b) /\ a > b

Max(a, b) == IF a >= b THEN a ELSE b
Min(a, b) == IF a <= b THEN a ELSE b
Abs(a) == IF a < 0 THEN -a ELSE a

\* floor(a * b / c) for c > 0, without forming a * b
MulDiv(a, b, c) == (a \div c) * b + ((a % c) * b) \div c

FMul(a, b) == MulDiv(a, b, Scale)
FDiv(a, b) == MulDiv(a, Scale, b)

\* Python round(x, nd), nd <= 3: round half to even at 10^(3-nd) thousandths
RoundUnit(x, m) ==
    LET q == x \div m
        r == x % m
    IN  IF 2 * r < m THEN q * m
        ELSE IF 2 * r > m THEN (q + 1) * m
        ELSE IF q % 2 = 0 THEN q * m ELSE (q + 1) * m

round(x, nd) ==
    IF ~notna(x) THEN NaN
    ELSE IF nd = 3 THEN RoundUnit(x, 1)
    ELSE IF nd = 2 THEN RoundUnit(x, 10)
    ELSE RoundUnit(x, 100)

----------------------------------------------------------------------------
(* Strategy configuration: SmartModel.__init__ *)

STRATEGIES == {"momentum", "value", "balanced", "growth"}

weights(st) ==
    CASE st = "momentum" ->
           [return_5 |-> 250, return_10 |-> 200, return_20 |-> 250,
            ma20_bias |-> 200, volatility |-> -100]
      [] st = "value" ->
           [return_5 |-> 50, return_10 |-> 100, return_20 |-> 150,
            ma20_bias |-> 600, volatility |-> -100]
      [] st = "balanced" ->
           [trend_score |-> 300, rsi_score |-> 200, macd_score |-> 250,
            bb_score |-> 150, volatility |-> -100]
      [] st = "growth" ->
           [return_5 |-> 300, return_10 |-> 250, return_20 |-> 200,
            ma20_bias |-> 150, volatility |-> -50]

\* one threshold of 45 for every strategy
cash_threshold_shared(st) == 45 * Scale

cash_threshold(st) ==
    CASE st = "momentum" -> 45 * Scale
      [] st = "value" -> 55 * Scale
      [] st = "balanced" -> 42 * Scale
      [] st = "growth" -> 40 * Scale

market_bear_threshold(st) ==
    CASE st = "momentum" -> -50
      [] st = "value" -> -60
      [] st = "balanced" -> -50
      [] st = "growth" -> -30

max_volatility(st) ==
    CASE st = "momentum" -> 30
      [] st = "value" -> 20
      [] st = "balanced" -> 35
      [] st = "growth" -> 35

----------------------------------------------------------------------------
(* SmartModel.predict.  A frame df is seen through len(df), df.iloc[-1]     *)
(* (latest) and df.iloc[-2] (prev); market_df through len(market_df) and    *)
(* market_df['收盘'].pct_change(5).iloc[-1] (return_5).                      *)

EmptyMap == [k \in {} |-> 0]

NEUTRAL == 50 * Scale

\* a clip that forgets the upper limit
ClipLowOnly(score) == Max(score, 0)

Clip(score) == Min(Max(score, 0), 100 * Scale)

\* a stop-loss whose tiers include their lower limits
ValueScoreInclusive(latest) ==
    LET ma20_bias == latest.ma20_bias
        break_depth == Abs(ma20_bias)
    IN  IF Lt(ma20_bias, 0)
        THEN IF break_depth >= 50 THEN 30 * Scale
             ELSE IF break_depth >= 20 THEN 40 * Scale
             ELSE 45 * Scale
        ELSE 50 * Scale

\* lines 241-256: the value strategy's moving-average stop-loss
ValueScore(latest) ==
    LET ma20_bias == latest.ma20_bias
        break_depth == Abs(ma20_bias)
    IN  IF Lt(ma20_bias, 0)
        THEN IF break_depth > 50 THEN 30 * Scale
             ELSE IF break_depth > 20 THEN 40 * Scale
             ELSE 45 * Scale
        ELSE NEUTRAL

ValueSignals(latest) ==
    ("ma20_below_line" :> (IF Lt(latest.ma20_bias, 0) THEN 1 ELSE 0))
    @@ (IF Lt(latest.ma20_bias, 0)
        THEN "break_distance" :> round(latest.ma20_bias * 100, 2)
        ELSE EmptyMap)

\* lines 262-273
HasTrend(df) == df.len >= 60

TrendSignal(latest) ==
    IF Gt(latest.ma5, latest.ma20) /\ Gt(latest.ma20, latest.ma60) THEN 85
    ELSE IF Lt(latest.ma5, latest.ma20) /\ Lt(latest.ma20, latest.ma60) THEN 15
    ELSE IF Gt(latest.ma5, latest.ma20) THEN 70
    ELSE IF Lt(latest.ma5, latest.ma20) THEN 30
    ELSE 50

\* lines 277-294
HasRsi(latest) == "rsi14" \in DOMAIN latest /\ notna(latest.rsi14)

RsiSignal(rsi) ==
    IF rsi < 30 * Scale THEN 80
    ELSE IF rsi < 40 * Scale THEN 65
    ELSE IF rsi > 70 * Scale THEN 20
    ELSE IF rsi > 60 * Scale THEN 35
    ELSE IF rsi > 50 * Scale THEN 60
    ELSE 40

\* lines 298-315
HasMacd(df) ==
    "macd" \in DOMAIN df.latest /\ "macd_signal" \in DOMAIN df.latest /\ df.len > 1

\* the plain tiers tested before the crosses
MacdSignalPlainFirst(prev, latest) ==
    LET prev_macd == prev.macd
        prev_signal == prev.macd_signal
    IN  IF Gt(latest.macd, latest.macd_signal) /\ Gt(latest.macd, 0) THEN 70
        ELSE IF Lt(latest.macd, latest.macd_signal) /\ Lt(latest.macd, 0) THEN 30
        ELSE IF Lt(prev_macd, prev_signal) /\ Gt(latest.macd, latest.macd_signal) THEN 80
        ELSE IF Gt(prev_macd, prev_signal) /\ Lt(latest.macd, latest.macd_signal) THEN 20
        ELSE 50

MacdSignal(prev, latest) ==
    LET prev_macd == prev.macd
        prev_signal == prev.macd_signal
    IN  IF Lt(prev_macd, prev_signal) /\ Gt(latest.macd, latest.macd_signal) THEN 80
        ELSE IF Gt(prev_macd, prev_signal) /\ Lt(latest.macd, latest.macd_signal) THEN 20
        ELSE IF Gt(latest.macd, latest.macd_signal) /\ Gt(latest.macd, 0) THEN 70
        ELSE IF Lt(latest.macd, latest.macd_signal) /\ Lt(latest.macd, 0) THEN 30
        ELSE 50

\* lines 319-334
HasBb(latest) == "bb_position" \in DOMAIN latest /\ notna(latest.bb_position)

BbSignal(bb_pos) ==
    IF bb_pos < 200 THEN 75
    ELSE IF bb_pos < 400 THEN 65
    ELSE IF bb_pos > 800 THEN 25
    ELSE IF bb_pos > 600 THEN 35
    ELSE 50

\* lines 337-347
HasVol(latest) == "volatility" \in DOMAIN latest /\ notna(latest.volatility)

\* a heavy penalty of 25 points
VolPenaltySteep(st, volatility) ==
    IF volatility > FMul(max_volatility(st), 1500) THEN -25
    ELSE IF volatility > max_volatility(st) THEN -10
    ELSE 0

VolPenalty(st, volatility) ==
    IF volatility > FMul(max_volatility(st), 1500) THEN -20
    ELSE IF volatility > max_volatility(st) THEN -10
    ELSE 0

\* (tier - 50) * weight, in thousandths of a point
Tier(signal, weight) == (signal - 50) * weight

BalancedScore(st, df) ==
    LET latest == df.latest
    IN  NEUTRAL
        + (IF HasTrend(df) THEN Tier(TrendSignal(latest), 300) ELSE 0)
        + (IF HasRsi(latest) THEN Tier(RsiSignal(latest.rsi14), 200) ELSE 0)
        + (IF HasMacd(df) THEN Tier(MacdSignal(df.prev, latest), 250) ELSE 0)
        + (IF HasBb(latest) THEN Tier(BbSignal(latest.bb_position), 150) ELSE 0)
        + (IF HasVol(latest) THEN VolPenalty(st, latest.volatility) * Scale ELSE 0)

BalancedSignals(st, df) ==
    LET latest == df.latest
    IN  (IF HasTrend(df)
         THEN "trend_score" :> round(TrendSignal(latest) * Scale, 2) ELSE EmptyMap)
        @@ (IF HasRsi(latest)
            THEN ("rsi_score" :> round(RsiSignal(latest.rsi14) * Scale, 2))
                 @@ ("rsi" :> round(latest.rsi14, 2))
            ELSE EmptyMap)
        @@ (IF HasMacd(df)
            THEN ("macd_score" :> round(MacdSignal(df.prev, latest) * Scale, 2))
                 @@ ("macd" :> latest.macd)
            ELSE EmptyMap)
        @@ (IF HasBb(latest)
            THEN ("bb_score" :> round(BbSignal(latest.bb_position) * Scale, 2))
                 @@ ("bb_position" :> round(latest.bb_position, 2))
            ELSE EmptyMap)
        @@ (IF HasVol(latest)
            THEN "volatility" :> round(latest.volatility * 100, 2) ELSE EmptyMap)

\* lines 351-359: the weighted sum of momentum and growth
FEATURES == <<"return_5", "return_10", "return_20", "ma20_bias", "volatility">>

Present(latest, feature) == feature \in DOMAIN latest /\ notna(latest[feature])

VolScore(st, v) == Max(0, Scale - FDiv(v, max_volatility(st))) * 50

\* an absent volatility scored as a volatility of zero
ContributionZeroFilled(st, latest, feature) ==
    IF feature = "volatility"
    THEN FMul(VolScore(st, IF Present(latest, feature) THEN latest[feature] ELSE 0)
              - 25 * Scale, Abs(weights(st)[feature]))
    ELSE IF ~Present(latest, feature) THEN 0
         ELSE FMul(latest[feature], weights(st)[feature] * 100)

Contribution(st, latest, feature) ==
    IF ~Present(latest, feature) THEN 0
    ELSE IF feature = "volatility"
         THEN FMul(VolScore(st, latest[feature]) - 25 * Scale,
                   Abs(weights(st)[feature]))
         ELSE FMul(latest[feature], weights(st)[feature] * 100)

WeightedScore(st, latest) ==
    NEUTRAL
    + Contribution(st, latest, FEATURES[1])
    + Contribution(st, latest, FEATURES[2])
    + Contribution(st, latest, FEATURES[3])
    + Contribution(st, latest, FEATURES[4])
    + Contribution(st, latest, FEATURES[5])

WeightedSignals(latest) ==
    [f \in {g \in {FEATURES[k] : k \in 1..5} : Present(latest, g)} |->
        round(latest[f] * 100, 2)]

\* lines 240, 259, 350: which of the three branches scores the frame
RawScore(st, df) ==
    IF st = "value" /\ "ma20_bias" \in DOMAIN df.latest THEN ValueScore(df.latest)
    ELSE IF st = "balanced" THEN BalancedScore(st, df)
    ELSE WeightedScore(st, df.latest)

RawSignals(st, df) ==
    IF st = "value" /\ "ma20_bias" \in DOMAIN df.latest THEN ValueSignals(df.latest)
    ELSE IF st = "balanced" THEN BalancedSignals(st, df)
    ELSE WeightedSignals(df.latest)

\* a benchmark frame that is never long enough
MarketUnseen(market_df) == FALSE

\* lines 365-372
MarketSeen(market_df) == ~market_df.isNone /\ market_df.len > 5

MarketBear(st, market_df) ==
    IF MarketSeen(market_df) /\ Lt(market_df.return_5, market_bear_threshold(st))
    THEN 1 ELSE 0

MarketSignals(st, market_df) ==
    (IF MarketSeen(market_df)
     THEN "market_return_5" :> round(market_df.return_5 * 100, 2) ELSE EmptyMap)
    @@ ("market_bear" :> MarketBear(st, market_df))

\* line 362
FinalScore(st, df) == round(Clip(RawScore(st, df)), 2)

\* the score predict returns (lines 233-234, 362, 375)
PredictScore(st, df) == IF df.len = 0 THEN NEUTRAL ELSE FinalScore(st, df)

\* the signal map predict returns
PredictSignals(st, df, market_df) ==
    IF df.len = 0 THEN EmptyMap
    ELSE RawSignals(st, df) @@ MarketSignals(st, market_df)
         @@ ("raw_score" :> FinalScore(st, df))

predict(st, df, market_df) ==
    [score |-> PredictScore(st, df), signals |-> PredictSignals(st, df, market_df)]

----------------------------------------------------------------------------
(* SmartModel.should_hold_cash *)

RECURSIVE SumScores(_, _)
SumScores(all_scores, keys) ==
    IF keys = {} THEN 0
    ELSE LET k == CHOOSE x \in keys : TRUE
         IN  all_scores[k] + SumScores(all_scores, keys \ {k})

MaxScore(all_scores) ==
    CHOOSE m \in {all_scores[k] : k \in DOMAIN all_scores} :
        \A k \in DOMAIN all_scores : all_scores[k] <= m

\* a flat-market test with the average compared to 50
MarketFlatWide(all_scores) ==
    LET n == Cardinality(DOMAIN all_scores)
        total == SumScores(all_scores, DOMAIN all_scores)
    IN  /\ total < 50 * Scale * n
        /\ MaxScore(all_scores) * n - total < 10 * Scale * n

\* avg_score = sum / len is compared without rounding the quotient:
\* avg < 40 and max - avg < 10, both sides multiplied by len(all_scores)
MarketFlat(all_scores) ==
    LET n == Cardinality(DOMAIN all_scores)
        total == SumScores(all_scores, DOMAIN all_scores)
    IN  /\ total < 40 * Scale * n
        /\ MaxScore(all_scores) * n - total < 10 * Scale * n

should_hold_cash(st, all_scores, market_df) ==
    IF DOMAIN all_scores = {} THEN [cash |-> TRUE, reason |-> "no_data"]
    ELSE IF MaxScore(all_scores) < cash_threshold(st)
         THEN [cash |-> TRUE, reason |-> "max_below_threshold"]
    ELSE IF MarketSeen(market_df)
            /\ Lt(market_df.return_5, market_bear_threshold(st))
         THEN [cash |-> TRUE, reason |-> "market_bear"]
    ELSE IF MarketFlat(all_scores)
         THEN [cash |-> TRUE, reason |-> "market_flat"]
    ELSE [cash |-> FALSE, reason |-> "signals_good"]

----------------------------------------------------------------------------
(* BacktestEngine.run_backtest *)

\* ETFData.etf_list, in its iteration order (the first MinInstruments codes)
etf_list == <<"510300", "510500", "159915", "588000", "512880">>

Symbols == {etf_list[k] : k \in DOMAIN etf_list}

Idx(symbol) == CHOOSE k \in DOMAIN etf_list : etf_list[k] = symbol

None == "None"
CASH == "CASH"

OrCash(holding) == IF holding = None THEN CASH ELSE holding

IsInstrument(holding) == holding # None /\ holding # CASH

min_commission == 5 * Scale

\* a commission of the minimum whatever the trade value
CommissionFloorOnly(value) == 5 * Scale

\* max(value * commission_rate, min_commission), commission_rate = 0.0001
Commission(value) == Max(value \div 10000, min_commission)

cash_annual_return == 20

\* cash_position * (1 + daily_cash_return), daily_cash_return = 0.02 / 252
Compound(cash) == cash + MulDiv(cash, cash_annual_return, 252 * Scale)

\* a signal read from the rows of the trade date itself
SignalToday(day) == day

\* lines 472-473: the date whose rows are scored for trade date i
SignalIndex(day) == day - 1

\* lines 477-480: yest_df, the one row of the symbol dated yesterday
YestDf(row) == [len |-> 1, latest |-> row, prev |-> row]

\* lines 482-483: market_df[market_df['日期'] == yesterday], at most one row
MarketYest == [isNone |-> FALSE, len |-> 1, return_5 |-> NaN]

\* lines 489-493: score, signals = predict(df, market_yest); the score is kept
AllScores(st, yesterday_data) ==
    [s \in DOMAIN yesterday_data |-> PredictScore(st, YestDf(yesterday_data[s]))]

\* the first key, whatever its score
FirstSymbol(all_scores) ==
    etf_list[CHOOSE j \in DOMAIN etf_list :
                /\ etf_list[j] \in DOMAIN all_scores
                /\ \A h \in 1..(j - 1) : etf_list[h] \notin DOMAIN all_scores]

\* the last maximum in dict order
LastBest(all_scores) ==
    LET m == MaxScore(all_scores)
        k == CHOOSE j \in DOMAIN etf_list :
                /\ etf_list[j] \in DOMAIN all_scores
                /\ all_scores[etf_list[j]] = m
                /\ \A h \in (j + 1)..Len(etf_list) :
                      etf_list[h] \in DOMAIN all_scores => all_scores[etf_list[h]] # m
    IN  etf_list[k]

\* max(all_scores, key=all_scores.get): the first maximum in dict order
BestSymbol(all_scores) ==
    LET m == MaxScore(all_scores)
        k == CHOOSE j \in DOMAIN etf_list :
                /\ etf_list[j] \in DOMAIN all_scores
                /\ all_scores[etf_list[j]] = m
                /\ \A h \in 1..(j - 1) :
                      etf_list[h] \in DOMAIN all_scores => all_scores[etf_list[h]] # m
    IN  etf_list[k]

\* lines 498-509
Target(st, all_scores) ==
    LET hc == should_hold_cash(st, all_scores, MarketYest)
    IN  IF hc.cash
        THEN [target |-> CASH, target_score |-> 0, cash_reason |-> hc.reason,
              reason |-> <<hc.reason>>]
        ELSE [target |-> BestSymbol(all_scores),
              target_score |-> all_scores[BestSymbol(all_scores)],
              cash_reason |-> hc.reason,
              reason |-> <<"top_score">>]

\* lines 512-519 and 566-567
ActionOf(holding, target) ==
    IF holding # target
    THEN IF holding = None \/ holding = CASH THEN "BUY"
         ELSE IF target = CASH THEN "SELL"
         ELSE "SWITCH"
    ELSE "HOLD"

\* a leg that executes at the close
ExecAtClose(today_data, symbol) == today_data[symbol].close

\* lines 523, 542: the price a leg executes at
ExecPrice(today_data, symbol) == today_data[symbol].open

\* lines 522-538
SellLeg(pf, today_data, today) ==
    IF IsInstrument(pf.current_holding) /\ pf.current_holding \in DOMAIN today_data
    THEN LET sell_price == ExecPrice(today_data, pf.current_holding)
             sell_value == FMul(pf.holding_shares, sell_price)
             commission == Commission(sell_value)
         IN  [current_holding |-> None,
              holding_shares |-> 0,
              cash_position |-> sell_value - commission,
              trade_log |-> Append(pf.trade_log,
                  [date |-> today, action |-> "SELL", symbol |-> pf.current_holding,
                   price |-> round(sell_price, 3),
                   shares |-> round(pf.holding_shares, 2),
                   value |-> round(sell_value, 2)])]
    ELSE pf

\* a buy that leaves the spent cash on the books
BuyLegKeepsCash(pf, tg, today_data, today) ==
    LET buy_price == today_data[tg.target].open
        actual_cash == pf.cash_position - Max(pf.cash_position \div 10000, 5 * Scale)
    IN  [current_holding |-> tg.target,
         holding_shares |-> FDiv(actual_cash, buy_price),
         cash_position |-> pf.cash_position,
         trade_log |-> Append(pf.trade_log,
             [date |-> today, action |-> "BUY", symbol |-> tg.target,
              price |-> round(buy_price, 3),
              shares |-> round(FDiv(actual_cash, buy_price), 2),
              score |-> round(tg.target_score, 2)])]

\* lines 540-557
BuyLeg(pf, tg, today_data, today) ==
    IF tg.target \in DOMAIN today_data
    THEN LET buy_price == ExecPrice(today_data, tg.target)
             commission == Commission(pf.cash_position)
             actual_cash == pf.cash_position - commission
             shares == FDiv(actual_cash, buy_price)
         IN  [current_holding |-> tg.target,
              holding_shares |-> shares,
              cash_position |-> 0,
              trade_log |-> Append(pf.trade_log,
                  [date |-> today, action |-> "BUY", symbol |-> tg.target,
                   price |-> round(buy_price, 3),
                   shares |-> round(shares, 2),
                   score |-> round(tg.target_score, 2)])]
    ELSE pf

\* a move to cash that logs nothing
CashLegSilent(pf, tg, today) == [pf EXCEPT !.current_holding = CASH]

\* lines 558-565
CashLeg(pf, tg, today) ==
    [pf EXCEPT !.current_holding = CASH,
               !.trade_log = Append(pf.trade_log,
                   [date |-> today, action |-> "CASH", reason |-> tg.cash_reason,
                    cash_value |-> round(pf.cash_position, 2)])]

\* an execution that sells and stops there
ExecuteSellOnly(pf, tg, today_data, today) ==
    IF pf.current_holding # tg.target THEN SellLeg(pf, today_data, today) ELSE pf

\* an execution that trades into the target even when it is already held
ExecuteAlways(pf, tg, today_data, today) ==
    LET sold == SellLeg(pf, today_data, today)
    IN  IF tg.target # CASH THEN BuyLeg(sold, tg, today_data, today)
        ELSE CashLeg(sold, tg, today)

\* lines 521-568
Execute(pf, tg, today_data, today) ==
    IF pf.current_holding # tg.target
    THEN LET sold == SellLeg(pf, today_data, today)
         IN  IF tg.target # CASH THEN BuyLeg(sold, tg, today_data, today)
             ELSE CashLeg(sold, tg, today)
    ELSE pf

\* compounding that also covers the undecided first day
CompoundsWhenFlat(holding) == holding = CASH \/ holding = None

\* lines 578-579: cash earns the daily rate while the holding is 'CASH'
CompoundsToday(holding) == holding = CASH

\* a valuation at the open
MarkAtOpen(today_data, symbol) == today_data[symbol].open

\* line 575: the price the position is valued at
MarkPrice(today_data, symbol) == today_data[symbol].close

\* lines 574-580
Settle(pf, today_data) ==
    IF IsInstrument(pf.current_holding) /\ pf.current_holding \in DOMAIN today_data
    THEN [pf |-> pf,
          nav |-> FMul(pf.holding_shares, MarkPrice(today_data, pf.current_holding))]
    ELSE LET cash == IF CompoundsToday(pf.current_holding)
                     THEN Compound(pf.cash_position) ELSE pf.cash_position
         IN  [pf |-> [pf EXCEPT !.cash_position = cash], nav |-> cash]

\* lines 582-587
NavPoint(today, nav, holding, capital) ==
    [date |-> today, nav |-> round(nav, 2), holding |-> OrCash(holding),
     return_pct |-> round(MulDiv(nav - capital, 100, capital \div Scale), 2)]

\* lines 463-470: the record of a day before any decision is evaluated
NoDecision(today, holding) ==
    [date |-> today, prev_holding |-> OrCash(holding), scores |-> EmptyMap,
     decision |-> "", reason |-> <<>>, action |-> "HOLD"]

\* lines 496, 503-509, 514-518, 567-568
Decision(today, holding, all_scores, tg) ==
    [date |-> today, prev_holding |-> OrCash(holding),
     scores |-> [s \in DOMAIN all_scores |-> round(all_scores[s], 2)],
     decision |-> tg.target,
     reason |-> IF ActionOf(holding, tg.target) = "HOLD"
                THEN Append(tg.reason, "keep_holding") ELSE tg.reason,
     action |-> ActionOf(holding, tg.target)]

----------------------------------------------------------------------------
(* Inputs: the rows calculate_features attaches to the price bars *)

MaxDays == 3

\* the common dates in an order that is not sorted
UnsortedDates == [k \in 0..MaxDays |-> MaxDays + 1 - k]

\* line 431: the sorted common dates on or after start_date, as day numbers
trade_dates == [k \in 0..MaxDays |-> k + 1]

InitialCapitals == {5 * Scale, 100000 * Scale}

\* the day's (open, close) levels
Levels == {<<1000, 1000>>, <<1000, 1100>>, <<1200, 1100>>}

\* a window not yet filled: every rolling feature absent
RowQuiet ==
    [return_5 |-> NaN, return_10 |-> NaN, return_20 |-> NaN, ma20_bias |-> NaN,
     volatility |-> NaN, rsi14 |-> NaN, macd |-> 0, macd_signal |-> 0,
     bb_position |-> NaN, ma5 |-> NaN, ma20 |-> NaN, ma60 |-> NaN]

RowUp ==
    [return_5 |-> 40, return_10 |-> 60, return_20 |-> 80, ma20_bias |-> 30,
     volatility |-> 12, rsi14 |-> 35 * Scale, macd |-> 6, macd_signal |-> 1,
     bb_position |-> 300, ma5 |-> 1030, ma20 |-> 1020, ma60 |-> NaN]

RowDown ==
    [return_5 |-> -80, return_10 |-> -100, return_20 |-> -150, ma20_bias |-> -60,
     volatility |-> 40, rsi14 |-> 75 * Scale, macd |-> -6, macd_signal |-> -1,
     bb_position |-> 900, ma5 |-> 1010, ma20 |-> 1020, ma60 |-> NaN]

\* the day's feature columns: the symbols of `up` rise, the others fall
FeatTable(up) == [s \in Symbols |-> IF s \in up THEN RowUp ELSE RowDown]

FeatTables ==
    {FeatTable({}), FeatTable({etf_list[2]}),
     FeatTable({etf_list[3], etf_list[5]}), [s \in Symbols |-> RowQuiet]}

\* the day's bars: every symbol quotes its own price around the day's levels
Bar(symbol, o, c) == [open |-> o + 10 * Idx(symbol), close |-> c + 10 * Idx(symbol)]

DayRows(feat, o, c) ==
    [s \in Symbols |-> [feat |-> feat[s], bar |-> Bar(s, o, c)]]

DayTables == {DayRows(f, l[1], l[2]) : f \in FeatTables, l \in Levels}

\* lines 450-457
TodayData(rows) == [s \in DOMAIN rows |-> rows[s].bar]

\* lines 474-480
YesterdayData(data, day) ==
    LET rows == data[SignalIndex(day) + 1]
    IN  [s \in DOMAIN rows |-> rows[s].feat]

----------------------------------------------------------------------------
(* The data load of run_backtest, lines 410-432 *)

\* line 422: the instruments a backtest needs
MinInstruments == 5

\* get_etf_data, lines 96-113: None for an empty or short history
Fetched(rows) == rows >= 30

\* lines 415-420: the keys of all_data
Loaded(rows) == {s \in DOMAIN rows : Fetched(rows[s]) /\ rows[s] > 40}

AllRows(n) == [s \in Symbols |-> n]

\* every instrument loaded, MaxDays trade dates in the window
FullLoad == [rows |-> AllRows(41), dates |-> MaxDays]

\* the histories the data source can return for a call
Loads ==
    {[rows |-> AllRows(41), dates |-> n] : n \in 0..MaxDays}
    \cup {[rows |-> AllRows(35), dates |-> MaxDays],
          [rows |-> [AllRows(41) EXCEPT ![etf_list[1]] = 29], dates |-> MaxDays]}

----------------------------------------------------------------------------
(* The day loop of run_backtest, lines 447-587: one step per trade date *)

Portfolio ==
    [current_holding |-> current_holding, holding_shares |-> holding_shares,
     cash_position |-> cash_position, trade_log |-> trade_log]

\* one pass of the loop body over the rows of trade date `day`: the portfolio
\* it leaves, the DailyDecision and the NavPoint it appends
DayStep(pf, data, day, st, capital) ==
    LET today == trade_dates[day]
        today_data == TodayData(data[day + 1])
    IN  IF day > 0
        THEN LET all_scores == AllScores(st, YesterdayData(data, day))
                 tg == Target(st, all_scores)
                 settled == Settle(Execute(pf, tg, today_data, today), today_data)
             IN  [pf |-> settled.pf,
                  decision |-> Decision(today, pf.current_holding, all_scores, tg),
                  nav_point |-> NavPoint(today, settled.nav,
                                         settled.pf.current_holding, capital)]
        ELSE LET settled == Settle(pf, today_data)
             IN  [pf |-> settled.pf,
                  decision |-> NoDecision(today, pf.current_holding),
                  nav_point |-> NavPoint(today, settled.nav,
                                         settled.pf.current_holding, capital)]

\* what the pass leaves in the engine and the locals of run_backtest
Record(data, step) ==
    /\ all_data' = data
    /\ decision_history' = Append(decision_history, step.decision)
    /\ current_holding' = step.pf.current_holding
    /\ holding_shares' = step.pf.holding_shares
    /\ cash_position' = step.pf.cash_position
    /\ trade_log' = step.pf.trade_log
    /\ nav_history' = Append(nav_history, step.nav_point)
    /\ i' = i + 1
    /\ UNCHANGED <<strategy_type, initial_capital, pvars, evars, hvars, r_frames, call_arg>>

\* i = 0: no prior-day signal (line 472 is false)
FirstDay ==
    /\ pc = "loop"
    /\ i = 0
    /\ i < obs.dates
    /\ \E rows \in DayTables :
       \E step \in {DayStep(Portfolio, Append(all_data, rows), i, strategy_type,
                            initial_capital)} :
          Record(Append(all_data, rows), step)
    /\ UNCHANGED run_b

\* i > 0: score yesterday's rows, trade at today's open, settle at today's close
TradeDay ==
    /\ pc = "loop"
    /\ i > 0
    /\ i < obs.dates
    /\ \E rows \in DayTables :
       \E step \in {DayStep(Portfolio, Append(all_data, rows), i, strategy_type,
                            initial_capital)} :
          Record(Append(all_data, rows), step)
    /\ UNCHANGED run_b

NoFrame == [len |-> 0, latest |-> RowQuiet, prev |-> RowQuiet]
NoMarket == [isNone |-> TRUE, len |-> 0, return_5 |-> NaN]
NoResult == [score |-> NaN, signals |-> EmptyMap]
NoRun == [diverged |-> FALSE]
NoReturn == [kind |-> "none yet"]
NoObs == [rows |-> [s \in {} |-> 0], dates |-> 0]
NoScores == [s \in {} |-> 0]
NoAnswer == [cash |-> FALSE, reason |-> "not asked"]
NoFrames == [s \in {} |-> NoFrame]
NoArg == [kind |-> "none yet"]

\* lines 434-440
Init ==
    /\ strategy_type \in STRATEGIES
    /\ initial_capital \in InitialCapitals
    /\ all_data = <<>>
    /\ i = 0
    /\ current_holding = None
    /\ holding_shares = 0
    /\ cash_position = initial_capital
    /\ trade_log = <<>>
    /\ nav_history = <<>>
    /\ decision_history = <<>>
    /\ p_df = NoFrame
    /\ p_market = NoMarket
    /\ p_result = NoResult
    /\ run_b = NoRun
    /\ pc = "loop"
    /\ ret = NoReturn
    /\ obs = FullLoad
    /\ h_scores = NoScores
    /\ h_result = NoAnswer
    /\ r_frames = NoFrames
    /\ call_arg = NoArg

Next == FirstDay \/ TradeDay

Spec == Init /\ [][Next]_vars

----------------------------------------------------------------------------
(* predict over feature frames: the frames calculate_features can hand it,  *)
(* each feature present or absent                                           *)

\* the features the weighted sum and the stop-loss read
WeightedRows ==
    [return_5 : {NaN, -900, 41, 1000}, return_10 : {NaN, -900, 1000},
     return_20 : {NaN, -900, 1000},
     ma20_bias : {NaN, -60, -50, -30, -20, -10, 0, 30},
     volatility : {NaN, 12, 60}, rsi14 : {NaN}, macd : {0}, macd_signal : {0},
     bb_position : {NaN}, ma5 : {NaN}, ma20 : {NaN}, ma60 : {NaN}]

\* (ma5, ma20, ma60) orderings and (macd, macd_signal) pairs
MaTriples ==
    {<<1030, 1020, 1010>>, <<1010, 1020, 1030>>, <<1030, 1020, 1025>>,
     <<1010, 1020, 1015>>, <<1020, 1020, 1020>>, <<1030, 1020, NaN>>}

MacdPairs == {<<5, 0>>, <<-5, 0>>, <<-1, -3>>}

\* the features the balanced strategy reads
BalancedRows ==
    {[return_5 |-> NaN, return_10 |-> NaN, return_20 |-> NaN, ma20_bias |-> NaN,
      volatility |-> v, rsi14 |-> r, macd |-> m[1], macd_signal |-> m[2],
      bb_position |-> b, ma5 |-> t[1], ma20 |-> t[2], ma60 |-> t[3]] :
        v \in {NaN, 30, 40, 60},
        r \in {NaN, 25 * Scale, 35 * Scale, 45 * Scale, 55 * Scale, 65 * Scale,
               75 * Scale},
        b \in {NaN, 100, 300, 500, 700, 900},
        m \in MacdPairs, t \in MaTriples}

PrevRows == {[RowQuiet EXCEPT !.macd = m[1], !.macd_signal = m[2]] :
                m \in {<<5, 0>>, <<-5, 0>>}}

Frames ==
    {[len |-> 1, latest |-> r, prev |-> r] : r \in WeightedRows \cup BalancedRows}
    \cup {[len |-> n, latest |-> r, prev |-> q] :
            n \in {2, 60}, r \in BalancedRows, q \in PrevRows}

Markets == {NoMarket, [isNone |-> FALSE, len |-> 10, return_5 |-> -70]}

InitPredict ==
    /\ strategy_type \in STRATEGIES
    /\ p_df \in Frames
    /\ p_market \in Markets
    /\ p_result = NoResult
    /\ initial_capital = 0
    /\ all_data = <<>>
    /\ i = 0
    /\ current_holding = None
    /\ holding_shares = 0
    /\ cash_position = 0
    /\ trade_log = <<>>
    /\ nav_history = <<>>
    /\ decision_history = <<>>
    /\ run_b = NoRun
    /\ pc = "idle"
    /\ ret = NoReturn
    /\ obs = NoObs
    /\ h_scores = NoScores
    /\ h_result = NoAnswer
    /\ r_frames = NoFrames
    /\ call_arg = NoArg

Predict ==
    /\ p_result = NoResult
    /\ p_result' = predict(strategy_type, p_df, p_market)
    /\ UNCHANGED <<btvars, p_df, p_market, run_b, evars, hvars, r_frames, call_arg>>

NextPredict == Predict

SpecPredict == InitPredict /\ [][NextPredict]_vars

----------------------------------------------------------------------------
(* Claims *)

\* C1: for every strategy and every frame of length >= 1, absent features
\* included, predict returns a score between 0 and 100 with two decimals.
C1_ScoreBounded ==
    p_result # NoResult =>
        /\ p_result.score >= 0
        /\ p_result.score <= 100 * Scale
        /\ p_result.score % 10 = 0

\* a frame with an absent feature whose raw score leaves [0, 100] was scored
C1_Witness ==
    /\ p_result # NoResult
    /\ p_df.latest.return_10 = NaN
    /\ RawScore(strategy_type, p_df) > 100 * Scale

----------------------------------------------------------------------------
(* Two runs of run_backtest side by side, over price histories that agree   *)
(* up to one trade date, where the second history has other closes (and so  *)
(* other features, which calculate_features derives from the closes up to   *)
(* their date) but the same opens.  The pair stops after that date.         *)

\* `rows` itself, and the day tables with the same opens and other closes
SameOpens(rows) ==
    {r \in DayTables :
        /\ \A s \in Symbols : r[s].bar.open = rows[s].bar.open
        /\ r = rows \/ \A s \in Symbols : r[s].bar.close # rows[s].bar.close}

InitLag ==
    /\ strategy_type \in STRATEGIES
    /\ initial_capital = 100000 * Scale
    /\ all_data = <<>>
    /\ i = 0
    /\ current_holding = None
    /\ holding_shares = 0
    /\ cash_position = initial_capital
    /\ trade_log = <<>>
    /\ nav_history = <<>>
    /\ decision_history = <<>>
    /\ p_df = NoFrame
    /\ p_market = NoMarket
    /\ p_result = NoResult
    /\ run_b = [diverged |-> FALSE, all_data |-> <<>>,
                pf |-> [current_holding |-> None, holding_shares |-> 0,
                        cash_position |-> initial_capital, trade_log |-> <<>>],
                nav_history |-> <<>>, decision_history |-> <<>>]
    /\ pc = "loop"
    /\ ret = NoReturn
    /\ obs = FullLoad
    /\ h_scores = NoScores
    /\ h_result = NoAnswer
    /\ r_frames = NoFrames
    /\ call_arg = NoArg

LagDay ==
    /\ i < obs.dates
    /\ ~run_b.diverged
    /\ \E rows \in DayTables :
       \E step \in {DayStep(Portfolio, Append(all_data, rows), i, strategy_type,
                            initial_capital)} :
       \E rows_b \in SameOpens(rows) :
       \E step_b \in {DayStep(run_b.pf, Append(run_b.all_data, rows_b), i,
                              strategy_type, initial_capital)} :
          /\ Record(Append(all_data, rows), step)
          /\ run_b' = [diverged |-> rows_b # rows,
                       all_data |-> Append(run_b.all_data, rows_b),
                       pf |-> step_b.pf,
                       nav_history |-> Append(run_b.nav_history, step_b.nav_point),
                       decision_history |->
                           Append(run_b.decision_history, step_b.decision)]

NextLag == LagDay

SpecLag == InitLag /\ [][NextLag]_vars

\* C2: no look-ahead.  Two runs whose price data agree before trade date t and
\* on the opens of t record the same scores, target and action for t and the
\* same trade records, whatever the closes and the features of t are.
C2_NoLookAhead ==
    /\ decision_history = run_b.decision_history
    /\ trade_log = run_b.pf.trade_log

\* the closes of a day differed, the day traded, and only the NAV shows it
C2_Witness ==
    /\ run_b.diverged
    /\ i >= 2
    /\ decision_history[i].action = "SWITCH"
    /\ \E s \in Symbols : all_data[i][s].feat # run_b.all_data[i][s].feat
    /\ nav_history # run_b.nav_history

----------------------------------------------------------------------------
(* Claims about the day loop, checked under Spec *)

Flat(holding) == holding = None \/ holding = CASH

\* the kind of state transition a day made
Transition(before, after) ==
    IF Flat(before) /\ IsInstrument(after) THEN "BUY"
    ELSE IF IsInstrument(before) /\ Flat(after) THEN "SELL"
    ELSE IF IsInstrument(before) /\ IsInstrument(after) /\ before # after THEN "SWITCH"
    ELSE "HOLD"

\* the trade records carrying a date
OnDate(log, date) ==
    LET Dated(r) == r.date = date
    IN  SelectSeq(log, Dated)

\* the bar of a symbol on the k-th processed date
BarOf(k, symbol) == all_data[k][symbol].bar

\* C3: the action recorded for a day is the classification of that day's
\* transition: BUY = FLAT to INVESTED, SELL = INVESTED to FLAT, SWITCH =
\* INVESTED(a) to INVESTED(b), HOLD = unchanged state.
C3_ActionIsTransition ==
    [][i' = i + 1 =>
        decision_history'[i'].action = Transition(current_holding, current_holding')]_vars

\* C4: a SWITCH day logs exactly two records on its date: a SELL of the old
\* holding at the day's open, then a BUY of the target at the day's open.
C4_SwitchTwoLegs ==
    \A k \in 1..Len(decision_history) :
        LET dec == decision_history[k]
            recs == OnDate(trade_log, dec.date)
        IN  dec.action = "SWITCH" =>
              /\ Len(recs) = 2
              /\ recs[1].action = "SELL"
              /\ recs[1].symbol = dec.prev_holding
              /\ recs[1].price = round(BarOf(k, dec.prev_holding).open, 3)
              /\ recs[2].action = "BUY"
              /\ recs[2].symbol = dec.decision
              /\ recs[2].price = round(BarOf(k, dec.decision).open, 3)

\* a day switched between two instruments whose open and close differ
C4_Witness ==
    \E k \in 1..Len(decision_history) :
        /\ decision_history[k].action = "SWITCH"
        /\ BarOf(k, decision_history[k].decision).open
             # BarOf(k, decision_history[k].decision).close

\* C5: every decision whose action is not HOLD has a trade record of its date.
C5_NonHoldLogged ==
    \A k \in 1..Len(decision_history) :
        decision_history[k].action # "HOLD" =>
            Len(OnDate(trade_log, decision_history[k].date)) >= 1

\* a BUY day and a SELL day were processed, each with its records
C5_Witness ==
    /\ \E k \in 1..Len(decision_history) :
          /\ decision_history[k].action = "BUY"
          /\ Len(OnDate(trade_log, decision_history[k].date)) = 1
    /\ \E k \in 1..Len(decision_history) :
          /\ decision_history[k].action = "SELL"
          /\ Len(OnDate(trade_log, decision_history[k].date)) = 2

\* C6: day 0 is recorded as HOLD with no scores, no trade record carries its
\* date, and its NAV is the initial capital.
C6_DayZero ==
    i >= 1 =>
        /\ decision_history[1].action = "HOLD"
        /\ decision_history[1].scores = EmptyMap
        /\ Len(OnDate(trade_log, trade_dates[0])) = 0
        /\ nav_history[1].date = trade_dates[0]
        /\ nav_history[1].nav = initial_capital

\* day 0 is on record and later days traded
C6_Witness ==
    /\ i >= 2
    /\ Len(trade_log) >= 2
    /\ initial_capital = 100000 * Scale

\* C7 as stated: the NAV of a NavPoint is holding_shares times the close of
\* the held instrument when the recorded holding is an instrument, and the
\* cash balance after the day's compounding when it is the cash sentinel.
C7_NavExact ==
    i >= 1 =>
        LET np == nav_history[i]
        IN  IF np.holding # CASH
            THEN np.nav = FMul(holding_shares, BarOf(i, np.holding).close)
            ELSE np.nav = cash_position

\* C7 amended: the NAV of a NavPoint is that value rounded to two decimals
\* (line 584 stores round(nav, 2)).
C7_NavConsistent ==
    i >= 1 =>
        LET np == nav_history[i]
        IN  IF np.holding # CASH
            THEN np.nav = round(FMul(holding_shares, BarOf(i, np.holding).close), 2)
            ELSE np.nav = round(cash_position, 2)

\* an invested day whose close is not its open, after a cash day
C7_Witness ==
    /\ i >= 3
    /\ nav_history[i].holding # CASH
    /\ nav_history[i - 1].holding = CASH
    /\ nav_history[i].nav > 0
    /\ BarOf(i, current_holding).close # BarOf(i, current_holding).open

\* cash held when the day's trades are done, before the day's compounding
CashAfterTrades ==
    IF IsInstrument(current_holding)
    THEN LET sell_value ==
                 FMul(holding_shares, all_data'[i'][current_holding].bar.open)
         IN  sell_value - Commission(sell_value)
    ELSE cash_position

C9_SharesIffInvested ==
    holding_shares > 0 <=> IsInstrument(current_holding)

\* C10: an instrument is never held together with cash: invested means a
\* cash balance of 0, flat means 0 shares.
C10_NeverBoth ==
    /\ IsInstrument(current_holding) => cash_position = 0
    /\ Flat(current_holding) => holding_shares = 0

\* invested again right after the two legs of a SWITCH
C10_Witness ==
    /\ i >= 1
    /\ decision_history[i].action = "SWITCH"
    /\ holding_shares > 0
    /\ cash_position = 0

\* C11: after n processed trade dates nav_history and decision_history hold
\* n entries each, the k-th entries of both carry the k-th trade date, and
\* the dates are strictly increasing.
C11_OneEntryPerDate ==
    /\ Len(nav_history) = i
    /\ Len(decision_history) = i
    /\ \A k \in 1..i :
          /\ nav_history[k].date = trade_dates[k - 1]
          /\ decision_history[k].date = trade_dates[k - 1]
    /\ \A k \in 1..(i - 1) :
          /\ nav_history[k].date < nav_history[k + 1].date
          /\ decision_history[k].date < decision_history[k + 1].date

\* three dates are on record, the last one with a trade
C11_Witness ==
    /\ i >= 3
    /\ Len(nav_history) = i
    /\ decision_history[i].action # "HOLD"

\* the benchmark '510300' and its trailing 5-day return on the k-th date
BenchmarkReturn5(k) == all_data[k][etf_list[1]].feat.return_5

\* C14: on every day t > 0 whose benchmark 5-day return as of day t-1 is
\* below the strategy's bear threshold, the decision is CASH.
C14_BearForcesCash ==
    \A k \in 2..Len(decision_history) :
        (/\ notna(BenchmarkReturn5(k - 1))
         /\ BenchmarkReturn5(k - 1) < market_bear_threshold(strategy_type))
        => decision_history[k].decision = CASH

\* C15: on every day t > 0 whose prior-day scores are all below the cash
\* threshold, the decision is "CASH", the action is CASH and no BUY or SELL
\* record carries the day's date.
C15_AllLowMeansCashAction ==
    \A k \in 2..Len(decision_history) :
        LET dec == decision_history[k]
            recs == OnDate(trade_log, dec.date)
        IN  (\A s \in DOMAIN dec.scores :
                dec.scores[s] < cash_threshold(strategy_type))
            => /\ dec.decision = CASH
               /\ dec.action = "CASH"
               /\ \A n \in 1..Len(recs) : recs[n].action \notin {"BUY", "SELL"}

\* the scores of the rows dated the (k-1)-th date, one per instrument
PriorScores(k) ==
    [s \in Symbols |-> PredictScore(strategy_type, YestDf(all_data[k - 1][s].feat))]

\* C16: on every day t > 0 for which should_hold_cash is false the target is
\* an instrument with the maximum prior-day score, the action is BUY when
\* the portfolio was FLAT, and decision.scores is the full map of prior-day
\* scores with two decimals.  Stated of the day just processed: the
\* histories are only appended to, so every day is the last one once.
C16_TargetIsBest ==
    \A k \in {i} \ {0, 1} :
        LET dec == decision_history[k]
            prior == PriorScores(k)
        IN  ~should_hold_cash(strategy_type, prior, MarketYest).cash
            => /\ dec.decision \in Symbols
               /\ \A s \in Symbols : prior[s] <= prior[dec.decision]
               /\ dec.prev_holding = CASH => dec.action = "BUY"
               /\ DOMAIN dec.scores = Symbols
               /\ \A s \in Symbols : dec.scores[s] = round(prior[s], 2)

\* a FLAT portfolio bought the best of instruments with different scores
C16_Witness ==
    \E k \in 2..Len(decision_history) :
        /\ decision_history[k].decision \in Symbols
        /\ decision_history[k].prev_holding = CASH
        /\ decision_history[k].action = "BUY"
        /\ decision_history[k].decision # etf_list[1]
        /\ \E s \in Symbols :
              decision_history[k].scores[s]
                < decision_history[k].scores[decision_history[k].decision]

\* max(trade_value * 0.0001, 5)
Fee(value) == Max(value \div 10000, 5 * Scale)

\* what a sale of the holding at the day's open leaves after its commission
Proceeds ==
    LET sell_value == FMul(holding_shares, all_data'[i'][current_holding].bar.open)
    IN  sell_value - Fee(sell_value)

\* C18: a sell leg of s shares at open p leaves s*p - max(s*p*0.0001, 5) in
\* cash (the CASH record shows it, the day's compounding follows); a buy leg
\* with cash c at open q leaves (c - max(c*0.0001, 5)) / q shares; a SWITCH
\* pays both.
C18_CommissionBothLegs ==
    [][i' = i + 1 =>
        LET dec == decision_history'[i']
            q == all_data'[i'][dec.decision].bar.open
        IN  /\ dec.action = "SELL" =>
                 /\ trade_log'[Len(trade_log')].cash_value = round(Proceeds, 2)
                 /\ cash_position' = Compound(Proceeds)
            /\ (dec.action = "BUY" /\ dec.decision # CASH) =>
                 holding_shares' = FDiv(cash_position - Fee(cash_position), q)
            /\ dec.action = "SWITCH" =>
                 holding_shares' = FDiv(Proceeds - Fee(Proceeds), q)]_vars

\* a SWITCH and, before it, a BUY whose commissions exceed the minimum
C18_Witness ==
    /\ i >= 3
    /\ decision_history[i].action = "SWITCH"
    /\ decision_history[i - 1].action = "BUY"
    /\ initial_capital = 100000 * Scale
    /\ holding_shares > 0

----------------------------------------------------------------------------
(* should_hold_cash over score maps and benchmark frames *)

\* scores around the four cash thresholds and the flat-market bounds
ScoreLevels ==
    {30 * Scale, 36 * Scale, 38 * Scale, 39 * Scale, 40 * Scale, 42 * Scale,
     45 * Scale, 55 * Scale, 80 * Scale}

\* all_scores: no entry, one entry, three entries
ScoreMaps ==
    {NoScores}
    \cup [{etf_list[1]} -> ScoreLevels]
    \cup [{etf_list[1], etf_list[2], etf_list[3]} -> ScoreLevels]

\* market_df: None, the one-row slice of run_backtest, and 60-day frames whose
\* trailing 5-day return lies on either side of the bear thresholds
CashMarkets ==
    {NoMarket, MarketYest}
    \cup {[isNone |-> FALSE, len |-> 40, return_5 |-> r] : r \in {-70, -55, -40, 10}}

InitCash ==
    /\ strategy_type \in STRATEGIES
    /\ h_scores \in ScoreMaps
    /\ p_market \in CashMarkets
    /\ h_result = NoAnswer
    /\ p_df = NoFrame
    /\ p_result = NoResult
    /\ initial_capital = 0
    /\ all_data = <<>>
    /\ i = 0
    /\ current_holding = None
    /\ holding_shares = 0
    /\ cash_position = 0
    /\ trade_log = <<>>
    /\ nav_history = <<>>
    /\ decision_history = <<>>
    /\ run_b = NoRun
    /\ pc = "idle"
    /\ ret = NoReturn
    /\ obs = NoObs
    /\ r_frames = NoFrames
    /\ call_arg = NoArg

HoldCash ==
    /\ h_result = NoAnswer
    /\ h_result' = should_hold_cash(strategy_type, h_scores, p_market)
    /\ UNCHANGED <<btvars, pvars, run_b, evars, h_scores, r_frames, call_arg>>

NextCash == HoldCash

SpecCash == InitCash /\ [][NextCash]_vars

\* the benchmark's trailing 5-day return exists and is below the threshold
Bearish(st, market_df) ==
    /\ notna(market_df.return_5)
    /\ market_df.return_5 < market_bear_threshold(st)

\* C12: should_hold_cash returns true exactly when all_scores is empty, or
\* the maximum score is below the cash threshold, or the benchmark's 5-day
\* return is below the bear threshold, or the average score is below 40 and
\* the maximum exceeds the average by less than 10.
C12_CashIffAnyDriver ==
    h_result # NoAnswer =>
        LET n == Cardinality(DOMAIN h_scores)
            total == SumScores(h_scores, DOMAIN h_scores)
        IN  h_result.cash <=>
              \/ DOMAIN h_scores = {}
              \/ \A s \in DOMAIN h_scores : h_scores[s] < cash_threshold(strategy_type)
              \/ Bearish(strategy_type, p_market)
              \/ /\ total < 40 * Scale * n
                 /\ \A s \in DOMAIN h_scores : h_scores[s] * n - total < 10 * Scale * n

\* the flat market alone gave cash: the maximum reaches the threshold and
\* the benchmark, seen over 40 rows, is not bearish
C12_Witness ==
    /\ h_result = [cash |-> TRUE, reason |-> "market_flat"]
    /\ \E s \in DOMAIN h_scores : h_scores[s] >= cash_threshold(strategy_type)
    /\ p_market.len > 5
    /\ ~Bearish(strategy_type, p_market)

\* C13: for each strategy, when every instrument's score is at or above the
\* cash threshold and the benchmark is not bearish, should_hold_cash returns
\* false.
C13_AllAboveThresholdInvests ==
    (/\ h_result # NoAnswer
     /\ DOMAIN h_scores # {}
     /\ \A s \in DOMAIN h_scores : h_scores[s] >= cash_threshold(strategy_type)
     /\ ~Bearish(strategy_type, p_market))
    => ~h_result.cash

\* three scores at the threshold under a benchmark that fell, but not below
\* the bear threshold
C13_Witness ==
    /\ h_result = [cash |-> FALSE, reason |-> "signals_good"]
    /\ Cardinality(DOMAIN h_scores) = 3
    /\ \A s \in DOMAIN h_scores : h_scores[s] = cash_threshold(strategy_type)
    /\ p_market.len > 5
    /\ p_market.return_5 = -40

----------------------------------------------------------------------------
(* The engine over whole calls: /api/backtest runs run_backtest on the      *)
(* strategy's engine, one call after another                                *)

\* the route passes no initial_capital: line 406 defaults it
DefaultCapital == 100000 * Scale

\* Python's None as a return value
NoneResult == [kind |-> "None"]

\* len(nav_df[nav_df['holding'] == 'CASH']), line 612
RECURSIVE CashDays(_)
CashDays(navs) ==
    IF navs = <<>> THEN 0
    ELSE (IF Head(navs).holding = CASH THEN 1 ELSE 0) + CashDays(Tail(navs))

\* every record of the log, whatever its action
AnyTrades(log) == log

\* the BUY records, line 615
BuyTrades(log) ==
    LET IsBuy(r) == r.action = "BUY"
    IN  SelectSeq(log, IsBuy)

\* long division: the quotient q and the remainder r of a / c carried d more
\* decimal digits
RECURSIVE Digits(_, _, _, _)
Digits(q, r, c, d) ==
    IF d = 0 THEN [q |-> q, r |-> r]
    ELSE Digits(q * 10 + (r * 10) \div c, (r * 10) % c, c, d - 1)

\* round(a / c * 100, 2) for c > 0, half to even, lines 603-604 and 621
PctRound(a, c) ==
    LET t == Digits(a \div c, a % c, c, 5)
        h == t.q \div 10
        d == t.q % 10
        up == d > 5 \/ (d = 5 /\ (t.r # 0 \/ h % 2 = 1))
    IN  (IF up THEN h + 1 ELSE h) * 10

PeakOfAll(navs, k) ==
    CHOOSE m \in {navs[j].nav : j \in 1..Len(navs)} :
        \A j \in 1..Len(navs) : navs[j].nav <= m

\* nav_df['nav'].cummax(), line 602: the highest NAV up to day k
cummax(navs, k) ==
    CHOOSE m \in {navs[j].nav : j \in 1..k} : \A j \in 1..k : navs[j].nav <= m

\* lines 603-604 and 621: round(drawdown.min() * 100, 2); the NAVs are
\* rounded to cents, so they are divided in cents
max_drawdown(navs) ==
    LET dd(k) == PctRound((navs[k].nav - cummax(navs, k)) \div 10,
                          cummax(navs, k) \div 10)
    IN  CHOOSE m \in {dd(k) : k \in 1..Len(navs)} :
            \A k \in 1..Len(navs) : m <= dd(k)

\* lines 591-633, with the fields total_return, max_drawdown, trade_count,
\* cash_ratio, the dates, final_nav and the three histories (annual_return
\* and sharpe_ratio, a power and a square root, are left out)
calculate_metrics(capital) ==
    IF Len(nav_history) < 2 THEN NoneResult
    ELSE LET last == nav_history[Len(nav_history)].nav
         IN  [kind |-> "metrics",
              total_return |-> round(MulDiv(last - capital, 100, capital \div Scale), 2),
              max_drawdown |-> max_drawdown(nav_history),
              trade_count |-> Len(BuyTrades(trade_log)),
              cash_ratio |->
                  round(MulDiv(CashDays(nav_history), 100 * Scale, Len(nav_history)), 2),
              start_date |-> nav_history[1].date,
              end_date |-> nav_history[Len(nav_history)].date,
              final_nav |-> round(last, 2),
              initial_capital |-> capital,
              nav_history |-> nav_history,
              trade_log |-> trade_log,
              decision_history |-> decision_history]

\* decision_history[-limit:][::-1], lines 665-669
get_decisions(limit) ==
    LET n == Len(decision_history)
        first == IF limit = 0 \/ limit >= n THEN 1 ELSE n - limit + 1
    IN  [k \in 1..(n - first + 1) |-> decision_history[n + 1 - k]]

Kept(history) == history

\* lines 438-440: self.trade_log = [], self.nav_history = [],
\* self.decision_history = []
Cleared(history) == <<>>

\* run_backtest up to its loop, lines 406-445: the load fails and the call
\* returns None before any local or history is assigned, or the locals and
\* the engine's histories are reset
Enter(load, capital) ==
    /\ obs' = load
    /\ initial_capital' = capital
    /\ all_data' = <<>>
    /\ i' = 0
    /\ current_holding' = None
    /\ holding_shares' = 0
    /\ IF Cardinality(Loaded(load.rows)) < MinInstruments
       THEN /\ ret' = NoneResult
            /\ pc' = "idle"
            /\ cash_position' = 0
            /\ UNCHANGED <<trade_log, nav_history, decision_history>>
       ELSE /\ ret' = NoReturn
            /\ pc' = "loop"
            /\ cash_position' = capital
            /\ trade_log' = Cleared(trade_log)
            /\ nav_history' = Cleared(nav_history)
            /\ decision_history' = Cleared(decision_history)

Call ==
    /\ pc = "idle"
    /\ \E load \in Loads : Enter(load, DefaultCapital)
    /\ UNCHANGED <<strategy_type, pvars, run_b, hvars, r_frames, call_arg>>

\* line 589, after the last trade date
Return ==
    /\ pc = "loop"
    /\ i = obs.dates
    /\ ret' = calculate_metrics(initial_capital)
    /\ pc' = "idle"
    /\ UNCHANGED <<btvars, pvars, run_b, obs, hvars, r_frames, call_arg>>

\* BacktestEngine.__init__, lines 400-404
InitEngine ==
    /\ strategy_type \in STRATEGIES
    /\ initial_capital = 0
    /\ all_data = <<>>
    /\ i = 0
    /\ current_holding = None
    /\ holding_shares = 0
    /\ cash_position = 0
    /\ trade_log = <<>>
    /\ nav_history = <<>>
    /\ decision_history = <<>>
    /\ p_df = NoFrame
    /\ p_market = NoMarket
    /\ p_result = NoResult
    /\ run_b = NoRun
    /\ pc = "idle"
    /\ ret = NoReturn
    /\ obs = NoObs
    /\ h_scores = NoScores
    /\ h_result = NoAnswer
    /\ r_frames = NoFrames
    /\ call_arg = NoArg

NextEngine == Call \/ FirstDay \/ TradeDay \/ Return

SpecEngine == InitEngine /\ [][NextEngine]_vars

\* C19: run_backtest returns a failure exactly when fewer than 5 instruments
\* have at least 30 observations or fewer than 2 common trade dates fall on
\* or after the start date; otherwise it returns metrics.
C19_FailureIffInsufficient ==
    (pc = "idle" /\ ret # NoReturn) =>
        (ret = NoneResult
           <=> \/ Cardinality({s \in DOMAIN obs.rows : obs.rows[s] >= 30}) < 5
               \/ obs.dates < 2)

\* C20: after any call to run_backtest, failed or not, the trade log, the
\* decision history and the NAV history hold only what that call produced
\* (a call that failed in its data load produced nothing), also as read by
\* get_decisions.
C20_OnlyOwnEntries ==
    (pc = "idle" /\ ret # NoReturn) =>
        LET made == IF Cardinality(Loaded(obs.rows)) < MinInstruments
                    THEN 0 ELSE obs.dates
        IN  /\ Len(nav_history) = made
            /\ Len(decision_history) = made
            /\ Len(get_decisions(50)) = made
            /\ made = 0 => trade_log = <<>>

----------------------------------------------------------------------------
(* Strategy.get_recommendation, lines 679-775 *)

UnimplementedNever(st) == FALSE

\* lines 682-686
Unimplemented(st) == st = "growth"

\* lines 709-716: the instruments whose history was fetched and is long enough
RecScored(frames) == {s \in DOMAIN frames : frames[s].len >= 30}

\* lines 718-724: all_scores[symbol] = round(score, 2)
RecScores(st, frames) ==
    [s \in RecScored(frames) |-> round(PredictScore(st, frames[s]), 2)]

\* lines 757-763: sorted by score, highest first; equal scores keep dict order
RECURSIVE Ranking(_)
Ranking(all_scores) ==
    IF DOMAIN all_scores = {} THEN <<>>
    ELSE LET b == BestSymbol(all_scores)
         IN  <<[code |-> b, score |-> all_scores[b], is_cash |-> 0]>>
             \o Ranking([s \in DOMAIN all_scores \ {b} |-> all_scores[s]])

\* the returned dict; details carries each instrument's score
get_recommendation(st, frames, market_df) ==
    IF Unimplemented(st)
    THEN [kind |-> "recommendation", status |-> "unimplemented",
          recommendation |-> "N/A", confidence |-> 0,
          cash_reason |-> "in_development", should_cash |-> 1,
          all_scores |-> <<>>, details |-> EmptyMap, market_status |-> "pending"]
    ELSE LET all_scores == RecScores(st, frames)
         IN  IF DOMAIN all_scores = {} THEN NoneResult
             ELSE LET hc == should_hold_cash(st, all_scores, market_df)
                      best_etf == IF hc.cash THEN CASH ELSE BestSymbol(all_scores)
                  IN  [kind |-> "recommendation", status |-> "none",
                       recommendation |-> best_etf,
                       confidence |-> IF hc.cash THEN 0 ELSE all_scores[best_etf],
                       cash_reason |-> IF hc.cash THEN hc.reason ELSE None,
                       should_cash |-> IF hc.cash THEN 1 ELSE 0,
                       all_scores |-> <<[code |-> CASH, score |-> 0, is_cash |-> 1]>>
                                      \o Ranking(all_scores),
                       details |-> [s \in DOMAIN all_scores |-> [score |-> all_scores[s]]],
                       market_status |-> IF hc.cash THEN "bear" ELSE "normal"]

\* the last 60 days of an instrument: nothing fetched, or about 40 rows
RecFrames ==
    {NoFrame,
     [len |-> 40, latest |-> RowUp, prev |-> RowQuiet],
     [len |-> 40, latest |-> RowDown, prev |-> RowQuiet],
     [len |-> 40, latest |-> RowQuiet, prev |-> RowQuiet]}

RecMarkets ==
    {NoMarket} \cup {[isNone |-> FALSE, len |-> 40, return_5 |-> r] : r \in {-70, 10}}

----------------------------------------------------------------------------
(* The first request a process serves: /api/recommend or /api/backtest *)

\* lines 1685-1694
Recommend ==
    /\ pc = "idle"
    /\ ret = NoReturn
    /\ IF Unimplemented(strategy_type)
       THEN \* lines 686-699: returned before anything is fetched
            /\ r_frames' = NoFrames
            /\ p_market' = NoMarket
            /\ ret' = get_recommendation(strategy_type, NoFrames, NoMarket)
       ELSE \* lines 707-710: the market and every instrument are fetched
            \E frames \in [Symbols -> RecFrames], market_df \in RecMarkets :
               /\ r_frames' = frames
               /\ p_market' = market_df
               /\ ret' = get_recommendation(strategy_type, frames, market_df)
    /\ UNCHANGED <<btvars, p_df, p_result, run_b, pc, obs, hvars, call_arg>>

\* lines 1696-1707
FirstCall == ret = NoReturn /\ Call

NextServe == Recommend \/ FirstCall \/ FirstDay \/ TradeDay

SpecServe == InitEngine /\ [][NextServe]_vars

\* the first key, in the order of etf_list, that carries the highest score
FirstOfTied(scores) ==
    LET Top(s) == \A x \in DOMAIN scores : scores[x] <= scores[s]
        j == CHOOSE n \in DOMAIN etf_list :
                /\ etf_list[n] \in DOMAIN scores
                /\ Top(etf_list[n])
                /\ ~\E h \in 1..(n - 1) : etf_list[h] \in DOMAIN scores /\ Top(etf_list[h])
    IN  etf_list[j]

\* C17: when the cash decision is false, run_backtest and get_recommendation
\* both select, among the instruments that share the maximum score, the one
\* that comes first in etf_list.
C17_TieGoesToFirstListed ==
    /\ \A k \in 2..Len(decision_history) :
          decision_history[k].decision # CASH =>
              decision_history[k].decision = FirstOfTied(decision_history[k].scores)
    /\ (ret # NoReturn /\ ret # NoneResult /\ ret.should_cash = 0) =>
          ret.recommendation = FirstOfTied([s \in DOMAIN ret.details |-> ret.details[s].score])

\* a recommendation among tied instruments, the first of which is not the
\* first of the list
C17_Witness ==
    /\ ret # NoReturn
    /\ ret # NoneResult
    /\ ret.should_cash = 0
    /\ ret.recommendation = etf_list[2]
    /\ \E s \in DOMAIN ret.details :
          /\ s # etf_list[2]
          /\ ret.details[s].score = ret.details[etf_list[2]].score

----------------------------------------------------------------------------
(* Claims about predict under the value strategy, checked under SpecPredict *)

\* C25: under the value strategy, whenever bias-from-MA20 is negative,
\* predict returns exactly 30.0 if |bias| > 0.05, 40.0 if 0.02 < |bias| <=
\* 0.05 and 45.0 otherwise, whatever the other features are.
C25_ValueStopLossTiers ==
    (/\ p_result # NoResult
     /\ strategy_type = "value"
     /\ p_df.len > 0
     /\ notna(p_df.latest.ma20_bias)
     /\ p_df.latest.ma20_bias < 0)
    => LET depth == -p_df.latest.ma20_bias
       IN  p_result.score = IF depth > 50 THEN 30 * Scale
                            ELSE IF depth > 20 THEN 40 * Scale
                            ELSE 45 * Scale

\* a breach of exactly 5% was scored while the other features are present
\* and would move a weighted sum
C25_Witness ==
    /\ p_result # NoResult
    /\ strategy_type = "value"
    /\ p_df.latest.ma20_bias = -50
    /\ p_df.latest.return_20 = 1000
    /\ p_df.latest.volatility = 60
    /\ p_result.score = 40 * Scale

\* C30: under the value strategy, when the stop-loss is not triggered
\* (bias-from-MA20 >= 0), predict returns the weighted score: 50 plus the
\* weighted contributions of return_5, return_10, return_20, ma20_bias and
\* volatility under the value weights, clipped to [0, 100].
C30_ValueWeightedWhenAboveLine ==
    (/\ p_result # NoResult
     /\ strategy_type = "value"
     /\ p_df.len > 0
     /\ notna(p_df.latest.ma20_bias)
     /\ p_df.latest.ma20_bias >= 0)
    => p_result.score = round(Clip(WeightedScore("value", p_df.latest)), 2)

----------------------------------------------------------------------------
(* Claims about the unimplemented strategy *)

\* C24: get_recommendation of the growth strategy returns the status
\* 'unimplemented' with an empty score list and empty details, and has
\* fetched no instrument and no market data; a recommendation of any other
\* strategy does not carry the status 'unimplemented'.
C24_GrowthIsUnimplemented ==
    ret.kind = "recommendation" =>
        /\ (ret.status = "unimplemented") <=> (strategy_type = "growth")
        /\ strategy_type = "growth" =>
              /\ ret.all_scores = <<>>
              /\ ret.details = EmptyMap
              /\ ret.recommendation = "N/A"
              /\ r_frames = NoFrames
              /\ p_market = NoMarket

\* the growth strategy has answered a recommendation request
C24_Witness ==
    /\ ret.kind = "recommendation"
    /\ strategy_type = "growth"
    /\ ret.status = "unimplemented"
    /\ r_frames = NoFrames

\* C23: /api/backtest of the growth strategy returns an 'unimplemented'
\* result and scores no instrument, simulates no day and makes no trade.
C23_GrowthBacktestRefused ==
    strategy_type = "growth" =>
        /\ nav_history = <<>>
        /\ decision_history = <<>>
        /\ trade_log = <<>>
        /\ (pc = "idle" /\ ret # NoReturn) => ret.kind = "unimplemented"

----------------------------------------------------------------------------
(* calculate_metrics over a recorded NAV history *)

MaxNavs == 5

\* NAVs a run can record: day 0 records the capital, every later day the
\* value of the position at the close
NavLevels == {99000 * Scale, 100000 * Scale, 101000 * Scale, 102000 * Scale}

NavSeqs ==
    {<<>>} \cup
    UNION {{<<DefaultCapital>> \o t : t \in [1..n -> NavLevels]} : n \in 0..(MaxNavs - 1)}

\* the nav_history these NAVs make, lines 583-588
HistoryOf(navs, capital) ==
    [k \in 1..Len(navs) |->
        NavPoint(k, navs[k], IF k = 1 THEN None ELSE etf_list[1], capital)]

InitMetrics ==
    /\ strategy_type = "momentum"
    /\ initial_capital = DefaultCapital
    /\ nav_history \in {HistoryOf(navs, DefaultCapital) : navs \in NavSeqs}
    /\ all_data = <<>>
    /\ i = Len(nav_history)
    /\ current_holding = IF nav_history = <<>> THEN None
                         ELSE nav_history[Len(nav_history)].holding
    /\ holding_shares = 0
    /\ cash_position = 0
    /\ trade_log = <<>>
    /\ decision_history = <<>>
    /\ p_df = NoFrame
    /\ p_market = NoMarket
    /\ p_result = NoResult
    /\ run_b = NoRun
    /\ pc = "idle"
    /\ ret = NoReturn
    /\ obs = NoObs
    /\ h_scores = NoScores
    /\ h_result = NoAnswer
    /\ r_frames = NoFrames
    /\ call_arg = NoArg

\* line 589: return self.calculate_metrics(initial_capital)
Metrics ==
    /\ pc = "idle"
    /\ ret = NoReturn
    /\ ret' = calculate_metrics(initial_capital)
    /\ UNCHANGED <<btvars, pvars, run_b, pc, obs, hvars, r_frames, call_arg>>

NextMetrics == Metrics

SpecMetrics == InitMetrics /\ [][NextMetrics]_vars

\* the NAVs 100000, 101000, 99000, 99000, 102000
ExampleNavs ==
    <<100000 * Scale, 101000 * Scale, 99000 * Scale, 99000 * Scale, 102000 * Scale>>

\* C28: total_return is (last NAV / initial capital - 1) * 100 and
\* max_drawdown is the least, over the days, of (NAV - highest NAV so far) /
\* highest NAV so far * 100, both rounded to two decimals; max_drawdown is
\* never positive; the NAVs 100000, 101000, 99000, 99000, 102000 with capital
\* 100000 give total_return 2.00 and max_drawdown -1.98.
C28_ReturnAndDrawdown ==
    ret.kind = "metrics" =>
        LET n == Len(nav_history)
            nav(k) == nav_history[k].nav
            fall(j, k) == PctRound((nav(k) - nav(j)) \div 10, nav(j) \div 10)
        IN  /\ ret.total_return =
                  PctRound((nav(n) - initial_capital) \div 10, initial_capital \div 10)
            /\ \A j \in 1..n : \A k \in j..n : ret.max_drawdown <= fall(j, k)
            /\ \E j \in 1..n : \E k \in j..n : ret.max_drawdown = fall(j, k)
            /\ ret.max_drawdown <= 0
            /\ [k \in 1..n |-> nav(k)] = ExampleNavs =>
                  ret.total_return = 2000 /\ ret.max_drawdown = -1980

\* the metrics of the example, whose peak of 102000 comes after the trough
C28_Witness ==
    /\ ret.kind = "metrics"
    /\ [k \in 1..Len(nav_history) |-> nav_history[k].nav] = ExampleNavs
    /\ ret.max_drawdown = -1980

----------------------------------------------------------------------------
(* get_decisions after the first backtest of a process *)

\* the limits asked for: none, fewer than, as many as and more than the
\* decisions recorded, and the default of 50
Limits == 0..(MaxDays + 1) \cup {50}

\* lines 665-669, called on the engine once its run has returned
Decisions ==
    /\ pc = "idle"
    /\ ret.kind \in {"metrics", "None"}
    /\ \E limit \in Limits :
          /\ call_arg' = [kind |-> "decisions", limit |-> limit]
          /\ ret' = [kind |-> "decisions", list |-> get_decisions(limit)]
    /\ UNCHANGED <<btvars, pvars, run_b, pc, obs, hvars, r_frames>>

NextDecisions == FirstCall \/ FirstDay \/ TradeDay \/ Return \/ Decisions

SpecDecisions == InitEngine /\ [][NextDecisions]_vars

\* C27: for every limit >= 0, get_decisions(limit) returns exactly the
\* min(limit, n) most recent of the n recorded decisions, the newest first.
C27_DecisionsNewestFirst ==
    ret.kind = "decisions" =>
        LET n == Len(decision_history)
            m == Min(call_arg.limit, n)
        IN  /\ Len(ret.list) = m
            /\ \A k \in 1..m : ret.list[k] = decision_history[n + 1 - k]

----------------------------------------------------------------------------
(* BacktestEngine.get_chart_data, lines 635-663 *)

\* a date is a count of days since 1970-01-01; year, month and day of it
\* (the proleptic Gregorian calendar of datetime)
Civil(date) ==
    LET z == date + 719468
        era == z \div 146097
        doe == z - era * 146097
        yoe == (doe - doe \div 1460 + doe \div 36524 - doe \div 146096) \div 365
        doy == doe - (365 * yoe + yoe \div 4 - yoe \div 100)
        mp == (5 * doy + 2) \div 153
        m == IF mp < 10 THEN mp + 3 ELSE mp - 9
    IN  [year |-> yoe + era * 400 + (IF m <= 2 THEN 1 ELSE 0),
         month |-> m,
         day |-> doy - (153 * mp + 2) \div 5 + 1]

\* line 657: strftime('%m-%d') for week and month, strftime('%Y-%m') otherwise
DateLabel(date, period) ==
    IF period \in {"week", "month"}
    THEN <<Civil(date).month, Civil(date).day>>
    ELSE <<Civil(date).year, Civil(date).month>>

\* line 646
period_days == [week |-> 7, month |-> 30, half |-> 180, year |-> 365]

Ascending(navs) == \A k \in 1..(Len(navs) - 1) : navs[k].date <= navs[k + 1].date

\* line 643: df.sort_values('date')
RECURSIVE sort_values(_)
sort_values(navs) ==
    IF Ascending(navs) THEN navs
    ELSE LET k == CHOOSE j \in 1..Len(navs) :
                     \A h \in 1..Len(navs) : navs[j].date <= navs[h].date
         IN  <<navs[k]>> \o sort_values(SubSeq(navs, 1, k - 1)
                                         \o SubSeq(navs, k + 1, Len(navs)))

\* lines 645-652: the rows of the period that ends at the last date
Filtered(navs, period) ==
    LET df == sort_values(navs)
        end_date == df[Len(df)].date
        InPeriod(row) == row.date >= end_date - period_days[period]
    IN  IF period \in DOMAIN period_days THEN SelectSeq(df, InPeriod) ELSE df

\* lines 654-655: the stride of the rows kept
Step(n) == IF n > 60 THEN n \div 60 ELSE 1

\* filtered.iloc[::step], line 656
Strided(rows, step) ==
    [k \in 1..((Len(rows) + step - 1) \div step) |-> rows[(k - 1) * step + 1]]

\* lines 637-663: the chart points of a NAV history
ChartOf(navs, period) ==
    IF navs = <<>> THEN <<>>
    ELSE LET filtered == Filtered(navs, period)
             kept == Strided(filtered, Step(Len(filtered)))
         IN  [k \in 1..Len(kept) |->
                 [date |-> DateLabel(kept[k].date, period),
                  value |-> kept[k].nav,
                  return_pct |-> kept[k].return_pct,
                  holding |-> kept[k].holding,
                  is_cash |-> kept[k].holding = CASH]]

\* lines 635-663, on the NAV history the engine holds at the call
get_chart_data(period) == ChartOf(nav_history, period)

\* 2024-01-01, a Monday
FirstChartDate == 19723

\* the date of the k-th trade date: weekdays only
ChartDate(k) == FirstChartDate + (k - 1) + 2 * ((k - 1) \div 5)

\* numbers of trade dates of a backtest, up to a year and a few days
ChartLengths == {0, 1, 5, 22, 59, 60, 61, 90, 119, 120, 121, 129, 180, 243, 250, 262}

\* the NAV history of a run over n trade dates that is in cash on day 0 and
\* on every c-th day
ChartHistory(n, c) ==
    [k \in 1..n |->
        NavPoint(ChartDate(k), DefaultCapital + k * 10 * Scale,
                 IF k = 1 \/ k % c = 0 THEN CASH ELSE etf_list[1], DefaultCapital)]

Periods == {"week", "month", "half", "year", "all"}

InitChart ==
    /\ strategy_type = "momentum"
    /\ initial_capital = DefaultCapital
    /\ nav_history \in {ChartHistory(n, c) : n \in ChartLengths, c \in {2, 3}}
    /\ all_data = <<>>
    /\ i = Len(nav_history)
    /\ current_holding = IF nav_history = <<>> THEN None
                         ELSE nav_history[Len(nav_history)].holding
    /\ holding_shares = 0
    /\ cash_position = 0
    /\ trade_log = <<>>
    /\ decision_history = <<>>
    /\ p_df = NoFrame
    /\ p_market = NoMarket
    /\ p_result = NoResult
    /\ run_b = NoRun
    /\ pc = "idle"
    /\ ret = NoReturn
    /\ obs = NoObs
    /\ h_scores = NoScores
    /\ h_result = NoAnswer
    /\ r_frames = NoFrames
    /\ call_arg = NoArg

\* line 1714: chart_data = current_strategy.backtest.get_chart_data(period)
Chart ==
    /\ pc = "idle"
    /\ ret = NoReturn
    /\ \E period \in Periods :
          /\ call_arg' = [kind |-> "chart", period |-> period]
          /\ ret' = [kind |-> "chart", points |-> get_chart_data(period)]
    /\ UNCHANGED <<btvars, pvars, run_b, pc, obs, hvars, r_frames>>

NextChart == Chart

SpecChart == InitChart /\ [][NextChart]_vars

\* C26: get_chart_data returns at most 60 points, taken at a uniform stride
\* from the NAV history filtered to the period, each flagged is_cash exactly
\* when its holding is the cash sentinel.
C26_AtMostSixtyPoints ==
    ret.kind = "chart" =>
        LET points == ret.points
            window == IF nav_history = <<>> THEN <<>>
                      ELSE Filtered(nav_history, call_arg.period)
        IN  /\ Len(points) <= 60
            /\ \E step \in 1..Max(1, Len(window)) :
                  \A k \in 1..Len(points) :
                      /\ (k - 1) * step + 1 <= Len(window)
                      /\ points[k].value = window[(k - 1) * step + 1].nav
            /\ \A k \in 1..Len(points) :
                  points[k].is_cash <=> points[k].holding = CASH

----------------------------------------------------------------------------
(* The RSI of ETFData.calculate_features, lines 145-150 *)

\* rolling(window=14), lines 147-148
RsiWindow == 14

RECURSIVE SumSeq(_)
SumSeq(xs) == IF xs = <<>> THEN 0 ELSE Head(xs) + SumSeq(Tail(xs))

\* line 146: df['收盘'].diff() over the last RsiWindow + 1 closes
Delta(closes) == [k \in 1..(Len(closes) - 1) |-> closes[k + 1] - closes[k]]

\* line 147: the sum of the rises of the window (its mean times the window)
GainSum(closes) == SumSeq([k \in DOMAIN Delta(closes) |-> Max(Delta(closes)[k], 0)])

\* line 148: the sum of the falls of the window
LossSum(closes) == SumSeq([k \in DOMAIN Delta(closes) |-> Max(-Delta(closes)[k], 0)])

\* line 149: rs = gain / loss in floating point, where x / 0 is inf for
\* x > 0 and 0 / 0 is NaN; a finite ratio is kept as a fraction
RelativeStrength(gain, loss) ==
    IF loss = 0
    THEN IF gain = 0 THEN [kind |-> "nan"] ELSE [kind |-> "inf"]
    ELSE [kind |-> "finite", num |-> gain, den |-> loss]

\* line 150: 100 - (100 / (1 + rs)); 100 / inf is 0 and NaN stays NaN
rsi14(closes) ==
    LET rs == RelativeStrength(GainSum(closes), LossSum(closes))
    IN  IF rs.kind = "nan" THEN NaN
        ELSE IF rs.kind = "inf" THEN 100 * Scale
        ELSE 100 * Scale - MulDiv(100 * Scale, rs.den, rs.num + rs.den)

\* the last RsiWindow + 1 closes of a frame: from 10.000, ups rises of 0.050,
\* then downs falls of 0.030, then unchanged
ClosesOf(ups, downs) ==
    [k \in 1..(RsiWindow + 1) |->
        10 * Scale + 50 * Min(k - 1, ups) - 30 * Max(0, Min(k - 1 - ups, downs))]

CloseWindows ==
    {ClosesOf(ups, downs) : ups \in 0..RsiWindow, downs \in 0..RsiWindow}

InitFeatures ==
    /\ strategy_type = "momentum"
    /\ initial_capital = 0
    /\ all_data = <<>>
    /\ i = 0
    /\ current_holding = None
    /\ holding_shares = 0
    /\ cash_position = 0
    /\ trade_log = <<>>
    /\ nav_history = <<>>
    /\ decision_history = <<>>
    /\ p_df = NoFrame
    /\ p_market = NoMarket
    /\ p_result = NoResult
    /\ run_b = NoRun
    /\ pc = "idle"
    /\ ret = NoReturn
    /\ obs = NoObs
    /\ h_scores = NoScores
    /\ h_result = NoAnswer
    /\ r_frames = NoFrames
    /\ call_arg \in {[kind |-> "closes", closes |-> w] : w \in CloseWindows}

\* lines 123-169, the rsi14 of the last row
Features ==
    /\ ret = NoReturn
    /\ ret' = [kind |-> "features", rsi14 |-> rsi14(call_arg.closes)]
    /\ UNCHANGED <<btvars, pvars, run_b, pc, obs, hvars, r_frames, call_arg>>

NextFeatures == Features

SpecFeatures == InitFeatures /\ [][NextFeatures]_vars

\* C29: every window of 14 observations whose average loss is exactly zero,
\* the window of unchanged prices included, has an RSI of 100, never an
\* undefined or non-finite one.
C29_NoLossMeansHundred ==
    (ret.kind = "features" /\ LossSum(call_arg.closes) = 0) =>
        ret.rsi14 = 100 * Scale

----------------------------------------------------------------------------
(* run_backtest called twice in sequence on one engine, over the same data *)

\* what the first call used and produced
FirstRun ==
    [kind |-> "first run", all_data |-> all_data, ret |-> ret,
     trade_log |-> trade_log, nav_history |-> nav_history,
     decision_history |-> decision_history]

\* the days of the first call, over any price data
FirstDayOnce == run_b = NoRun /\ FirstDay

TradeDayOnce == run_b = NoRun /\ TradeDay

\* the second call: the same dates, capital and strategy, and a load that
\* finds what the first one found
CallAgain ==
    /\ pc = "idle"
    /\ ret # NoReturn
    /\ run_b = NoRun
    /\ run_b' = FirstRun
    /\ Enter(obs, initial_capital)
    /\ UNCHANGED <<strategy_type, pvars, hvars, r_frames, call_arg>>

\* a day of the second call, over the rows the first call read for that date
DayAgain ==
    /\ pc = "loop"
    /\ run_b # NoRun
    /\ i < obs.dates
    /\ \E data \in {SubSeq(run_b.all_data, 1, i + 1)} :
       \E step \in {DayStep(Portfolio, data, i, strategy_type, initial_capital)} :
          Record(data, step)
    /\ UNCHANGED run_b

NextAgain ==
    FirstCall \/ FirstDayOnce \/ TradeDayOnce \/ Return \/ CallAgain \/ DayAgain

\* a fresh engine of a strategy that scores by weights or by the stop-loss
InitAgain == InitEngine /\ strategy_type \in {"momentum", "value"}

SpecAgain == InitAgain /\ [][NextAgain]_vars

\* C21: a second run_backtest on the same engine, with the same data, dates,
\* strategy and capital as the first, returns the same result and leaves the
\* same NAV history, trade log and decision history: nothing of it depends
\* on what the first run left behind.
C21_SecondRunIdentical ==
    (run_b # NoRun /\ pc = "idle") =>
        /\ nav_history = run_b.nav_history
        /\ trade_log = run_b.trade_log
        /\ decision_history = run_b.decision_history
        /\ ret = run_b.ret

\* a second run that has traded and returned its metrics
C21_Witness ==
    /\ run_b # NoRun
    /\ pc = "idle"
    /\ ret.kind = "metrics"
    /\ Len(trade_log) >= 2
    /\ Len(nav_history) = obs.dates

----------------------------------------------------------------------------
(* Two concurrent /api/backtest requests of one strategy: get_current_strategy *)
(* hands both the same Strategy, hence the same BacktestEngine, and the      *)
(* threaded server runs their run_backtest calls interleaved                 *)

Threads == {"a", "b"}

\* the locals of a request not yet started, with what its call appends;
\* aliased: the lists in its metrics are still the lists the engine holds
\* (line 630 returns self.nav_history itself, not a copy)
IdleCall ==
    [pc |-> "idle", i |-> 0, current_holding |-> None, holding_shares |-> 0,
     cash_position |-> 0, ret |-> NoReturn,
     nav_made |-> <<>>, decisions_made |-> <<>>, trades_made |-> <<>>,
     aliased |-> FALSE, response |-> NoReturn]

\* the rows both requests load for a date: one instrument rising on a rising
\* day, or every instrument falling on a falling day
RaceTables ==
    {DayRows(FeatTable({etf_list[2]}), 1000, 1100),
     DayRows(FeatTable({}), 1200, 1100)}

InitRace ==
    /\ strategy_type \in {"momentum", "value"}
    /\ initial_capital = DefaultCapital
    /\ all_data = <<>>
    /\ i = 0
    /\ current_holding = None
    /\ holding_shares = 0
    /\ cash_position = 0
    /\ trade_log = <<>>
    /\ nav_history = <<>>
    /\ decision_history = <<>>
    /\ p_df = NoFrame
    /\ p_market = NoMarket
    /\ p_result = NoResult
    /\ run_b = [t \in Threads |-> IdleCall]
    /\ pc = "idle"
    /\ ret = NoReturn
    /\ obs = FullLoad
    /\ h_scores = NoScores
    /\ h_result = NoAnswer
    /\ r_frames = NoFrames
    /\ call_arg = NoArg

\* lines 406-445 of the call of thread t: its locals are set and the engine's
\* histories are rebound to empty lists
Begin(t) ==
    /\ run_b[t].pc = "idle"
    /\ run_b[t].ret = NoReturn
    /\ run_b' = [u \in Threads |->
                     IF u = t
                     THEN [IdleCall EXCEPT !.pc = "loop",
                                           !.cash_position = initial_capital]
                     ELSE [run_b[u] EXCEPT !.aliased = FALSE]]
    /\ trade_log' = Cleared(trade_log)
    /\ nav_history' = Cleared(nav_history)
    /\ decision_history' = Cleared(decision_history)
    /\ UNCHANGED <<strategy_type, initial_capital, all_data, i, current_holding,
                   holding_shares, cash_position, pvars, evars, hvars, r_frames,
                   call_arg>>

\* lines 447-587 of the call of thread t: one pass of its loop, which appends
\* to the lists the engine holds at that moment; all_data is the rows of the
\* dates either call has read
Day(t) ==
    LET me == run_b[t]
    IN  /\ me.pc = "loop"
        /\ me.i < obs.dates
        /\ \E rows \in (IF me.i < Len(all_data) THEN {all_data[me.i + 1]} ELSE RaceTables) :
           \E data \in {IF me.i < Len(all_data) THEN all_data ELSE Append(all_data, rows)} :
           \E step \in {DayStep([current_holding |-> me.current_holding,
                                  holding_shares |-> me.holding_shares,
                                  cash_position |-> me.cash_position,
                                  trade_log |-> trade_log],
                                 SubSeq(data, 1, me.i + 1), me.i, strategy_type,
                                 initial_capital)} :
              /\ all_data' = data
              /\ decision_history' = Append(decision_history, step.decision)
              /\ nav_history' = Append(nav_history, step.nav_point)
              /\ trade_log' = step.pf.trade_log
              /\ run_b' = [run_b EXCEPT ![t] =
                     [me EXCEPT !.i = me.i + 1,
                                !.current_holding = step.pf.current_holding,
                                !.holding_shares = step.pf.holding_shares,
                                !.cash_position = step.pf.cash_position,
                                !.nav_made = Append(@, step.nav_point),
                                !.decisions_made = Append(@, step.decision),
                                !.trades_made =
                                    @ \o SubSeq(step.pf.trade_log, Len(trade_log) + 1,
                                                Len(step.pf.trade_log))]]
        /\ UNCHANGED <<strategy_type, initial_capital, i, current_holding,
                       holding_shares, cash_position, pvars, evars, hvars,
                       r_frames, call_arg>>

\* line 589 of the call of thread t: the metrics of the engine's lists
End(t) ==
    /\ run_b[t].pc = "loop"
    /\ run_b[t].i = obs.dates
    /\ run_b' = [run_b EXCEPT ![t] = [run_b[t] EXCEPT
                     !.pc = "done", !.ret = calculate_metrics(initial_capital),
                     !.aliased = TRUE]]
    /\ UNCHANGED <<btvars, pvars, evars, hvars, r_frames, call_arg>>

\* lines 1709-1722 of the request of thread t: the error answer when the call
\* returned None, else the chart of the NAV history the engine holds now,
\* sent with the metrics; the metrics' NAV history is serialised as it is now
Respond(t) ==
    LET me == run_b[t]
    IN  /\ me.pc = "done"
        /\ \E period \in {"month", "all"} :
              run_b' = [run_b EXCEPT ![t] = [me EXCEPT
                  !.pc = "answered",
                  !.response =
                      IF me.ret.kind # "metrics" THEN [kind |-> "error"]
                      ELSE [kind |-> "backtest",
                            period |-> period,
                            nav_history |-> IF me.aliased THEN nav_history
                                            ELSE me.ret.nav_history,
                            chart_data |-> get_chart_data(period)]]]
        /\ UNCHANGED <<btvars, pvars, evars, hvars, r_frames, call_arg>>

NextRace == \E t \in Threads : Begin(t) \/ Day(t) \/ End(t) \/ Respond(t)

SpecRace == InitRace /\ [][NextRace]_vars

\* C22: when two /api/backtest requests of the same strategy run
\* concurrently, the NAV history, the decision history and the trade log
\* each run returns hold exactly the entries that run produced.
C22_RunsAreIsolated ==
    \A t \in Threads :
        run_b[t].pc = "done" =>
            /\ run_b[t].ret.kind = "metrics"
            /\ run_b[t].ret.nav_history = run_b[t].nav_made
            /\ run_b[t].ret.decision_history = run_b[t].decisions_made
            /\ run_b[t].ret.trade_log = run_b[t].trades_made

\* C40: in every /api/backtest response, whatever the interleaving with
\* another backtest request of the same strategy, chart_data is the chart of
\* exactly the NAV history the same response returns in its metrics.
C40_ChartOfOwnHistory ==
    \A t \in Threads :
        run_b[t].response.kind = "backtest" =>
            run_b[t].response.chart_data =
                ChartOf(run_b[t].response.nav_history, run_b[t].response.period)

----------------------------------------------------------------------------
(* get_current_strategy, lines 778-785, called by concurrent requests: the   *)
(* module-level strategy is read, replaced and read again without a lock.    *)
(* strategy_type is the type of the Strategy the global holds, None before   *)
(* the first one; run_b[t] holds the argument, the position and the return   *)
(* value of the call of thread t                                             *)

InitCache ==
    /\ strategy_type = None
    /\ initial_capital = DefaultCapital
    /\ all_data = <<>>
    /\ i = 0
    /\ current_holding = None
    /\ holding_shares = 0
    /\ cash_position = 0
    /\ trade_log = <<>>
    /\ nav_history = <<>>
    /\ decision_history = <<>>
    /\ p_df = NoFrame
    /\ p_market = NoMarket
    /\ p_result = NoResult
    /\ run_b = [t \in Threads |->
                   [pc |-> "idle", strategy_type |-> None, ret |-> NoReturn]]
    /\ pc = "idle"
    /\ ret = NoReturn
    /\ obs = NoObs
    /\ h_scores = NoScores
    /\ h_result = NoAnswer
    /\ r_frames = NoFrames
    /\ call_arg = NoArg

\* lines 1689 and 1704: a request of thread t calls
\* get_strategy(strategy_id), which calls get_current_strategy
Ask(t) ==
    /\ run_b[t].pc \in {"idle", "done"}
    /\ \E strategy_id \in STRATEGIES :
          run_b' = [run_b EXCEPT ![t] = [pc |-> "test",
                                         strategy_type |-> strategy_id,
                                         ret |-> NoReturn]]
    /\ UNCHANGED <<btvars, pvars, evars, hvars, r_frames, call_arg>>

\* line 782: strategy is None or strategy.strategy_type != strategy_type
Test(t) ==
    /\ run_b[t].pc = "test"
    /\ run_b' = [run_b EXCEPT ![t].pc =
                     IF strategy_type = None
                        \/ strategy_type # run_b[t].strategy_type
                     THEN "create" ELSE "return"]
    /\ UNCHANGED <<btvars, pvars, evars, hvars, r_frames, call_arg>>

\* line 783: strategy = Strategy(strategy_type=strategy_type), with the
\* empty histories of its new engine (lines 402-404)
Create(t) ==
    /\ run_b[t].pc = "create"
    /\ strategy_type' = run_b[t].strategy_type
    /\ trade_log' = <<>>
    /\ nav_history' = <<>>
    /\ decision_history' = <<>>
    /\ run_b' = [run_b EXCEPT ![t].pc = "return"]
    /\ UNCHANGED <<initial_capital, all_data, i, current_holding, holding_shares,
                   cash_position, pvars, evars, hvars, r_frames, call_arg>>

\* line 784: return strategy, the Strategy the global holds now
Hand(t) ==
    /\ run_b[t].pc = "return"
    /\ run_b' = [run_b EXCEPT ![t] = [@ EXCEPT
                     !.pc = "done",
                     !.ret = [kind |-> "strategy", strategy_type |-> strategy_type]]]
    /\ UNCHANGED <<btvars, pvars, evars, hvars, r_frames, call_arg>>

NextCache == \E t \in Threads : Ask(t) \/ Test(t) \/ Create(t) \/ Hand(t)

SpecCache == InitCache /\ [][NextCache]_vars

\* C34: under every interleaving of concurrent calls,
\* get_current_strategy(t) returns a Strategy whose strategy_type is the
\* requested t, so no request is served by the engine of another strategy.
C34_ReturnsRequestedType ==
    \A t \in Threads :
        run_b[t].pc = "done" => run_b[t].ret.strategy_type = run_b[t].strategy_type

----------------------------------------------------------------------------
(* Claims about the weighted and the balanced score, checked under SpecPredict *)

\* 50 + the weighted features of the momentum strategy (lines 178-187) that
\* are present, the volatility through its own score
MomentumSum(latest) ==
    LET Part(f, w) == IF notna(latest[f]) THEN FMul(latest[f], w * 100) ELSE 0
        vol_score == Max(0, Scale - FDiv(latest.volatility, 30)) * 50
    IN  50 * Scale + Part("return_5", 250) + Part("return_10", 200)
        + Part("return_20", 250) + Part("ma20_bias", 200)
        + (IF notna(latest.volatility) THEN FMul(vol_score - 25 * Scale, 100) ELSE 0)

\* the signal map names exactly the weighted features that are present
SignalsOfPresent(signals, latest) ==
    \A f \in {"return_5", "return_10", "return_20", "ma20_bias", "volatility"} :
        f \in DOMAIN signals <=> notna(latest[f])

\* C32 as stated: under the momentum strategy predict returns
\* clip(50 + sum over the present features other than volatility of value *
\* weight * 100 + (max(0, 1 - vol / max_vol) * 50 - 25) * |w_vol|, 0, 100),
\* an absent feature adding 0 and getting no entry in the signal map.
C32_MomentumWeightedExact ==
    (p_result # NoResult /\ strategy_type = "momentum" /\ p_df.len > 0) =>
        /\ p_result.score = Clip(MomentumSum(p_df.latest))
        /\ SignalsOfPresent(p_result.signals, p_df.latest)

\* C32, amended: predict returns that clipped sum rounded to two decimals;
\* an absent feature adds 0 and gets no entry in the signal map, so an absent
\* volatility is not scored as a volatility of zero.
C32_MomentumWeighted ==
    (p_result # NoResult /\ strategy_type = "momentum" /\ p_df.len > 0) =>
        /\ p_result.score = round(Clip(MomentumSum(p_df.latest)), 2)
        /\ SignalsOfPresent(p_result.signals, p_df.latest)

\* a momentum frame without volatility whose sum of 51.025 is returned as 51.02
C32_Witness ==
    /\ p_result # NoResult
    /\ strategy_type = "momentum"
    /\ p_df.len > 0
    /\ p_df.latest.return_5 = 41
    /\ ~notna(p_df.latest.return_10) /\ ~notna(p_df.latest.return_20)
    /\ ~notna(p_df.latest.ma20_bias) /\ ~notna(p_df.latest.volatility)
    /\ "volatility" \notin DOMAIN p_result.signals
    /\ p_result.score = 51020

\* the tier a sub-signal reports in the signal map, and (tier - 50) * weight
\* of it, 0 when the sub-signal is not available
TierPart(signals, key, weight) ==
    IF key \in DOMAIN signals THEN ((signals[key] - 50 * Scale) * weight) \div Scale
    ELSE 0

GoldenCross(df) ==
    df.prev.macd < df.prev.macd_signal /\ df.latest.macd > df.latest.macd_signal

DeadCross(df) ==
    df.prev.macd > df.prev.macd_signal /\ df.latest.macd < df.latest.macd_signal

\* C33: under the balanced strategy predict returns 50 plus (tier - 50) *
\* weight for each available sub-signal (trend tiers 15/30/50/70/85 at 0.30,
\* RSI tiers at 0.20, MACD tiers 20/30/50/70/80 at 0.25, Bollinger tiers at
\* 0.15) plus a penalty of -20 when volatility > 1.5 * max_volatility, -10
\* when volatility > max_volatility and 0 otherwise; a golden or dead cross
\* of the MACD decides its tier before the plain above/below-signal tiers.
C33_BalancedTiers ==
    (p_result # NoResult /\ strategy_type = "balanced" /\ p_df.len > 0) =>
        LET signals == p_result.signals
            vol == p_df.latest.volatility
            penalty == IF ~notna(vol) THEN 0
                       ELSE IF 2 * vol > 3 * 35 THEN -20
                       ELSE IF vol > 35 THEN -10 ELSE 0
            Tiers(key, tiers) ==
                key \in DOMAIN signals => signals[key] \in {t * Scale : t \in tiers}
        IN  /\ p_result.score = 50 * Scale
                  + TierPart(signals, "trend_score", 300)
                  + TierPart(signals, "rsi_score", 200)
                  + TierPart(signals, "macd_score", 250)
                  + TierPart(signals, "bb_score", 150)
                  + penalty * Scale
            /\ Tiers("trend_score", {15, 30, 50, 70, 85})
            /\ Tiers("rsi_score", {20, 35, 40, 60, 65, 80})
            /\ Tiers("macd_score", {20, 30, 50, 70, 80})
            /\ Tiers("bb_score", {25, 35, 50, 65, 75})
            /\ "trend_score" \in DOMAIN signals <=> p_df.len >= 60
            /\ "macd_score" \in DOMAIN signals <=> p_df.len > 1
            /\ "rsi_score" \in DOMAIN signals <=> notna(p_df.latest.rsi14)
            /\ "bb_score" \in DOMAIN signals <=> notna(p_df.latest.bb_position)
            /\ (p_df.len > 1 /\ GoldenCross(p_df)) => signals["macd_score"] = 80 * Scale
            /\ (p_df.len > 1 /\ DeadCross(p_df)) => signals["macd_score"] = 20 * Scale

\* a golden cross above zero, where the plain tier would be 70, scored with
\* every sub-signal and the heavy volatility penalty
C33_Witness ==
    /\ p_result # NoResult
    /\ strategy_type = "balanced"
    /\ p_df.len >= 60
    /\ GoldenCross(p_df)
    /\ p_df.latest.macd > 0
    /\ p_result.signals["macd_score"] = 80 * Scale
    /\ p_df.latest.volatility = 60
    /\ notna(p_df.latest.rsi14)
    /\ notna(p_df.latest.bb_position)

\* C37: under the balanced strategy the score before clipping lies between
\* 2.25 and 77.75, hence within [0, 100], for every combination of
\* sub-signal tiers and volatility penalty, and the clipping of line 362
\* leaves it as it is.
C37_BalancedNeverClipped ==
    (p_result # NoResult /\ strategy_type = "balanced" /\ p_df.len > 0) =>
        LET raw == RawScore(strategy_type, p_df)
        IN  /\ raw >= 2250
            /\ raw <= 77750
            /\ Clip(raw) = raw
            /\ p_result.score = raw

\* the lowest balanced score: full downtrend, overbought RSI, dead cross,
\* upper Bollinger band and the heavy volatility penalty
C37_Witness ==
    /\ p_result # NoResult
    /\ strategy_type = "balanced"
    /\ p_df.len >= 60
    /\ DeadCross(p_df)
    /\ p_result.signals["trend_score"] = 15 * Scale
    /\ notna(p_df.latest.rsi14) /\ p_result.signals["rsi_score"] = 20 * Scale
    /\ notna(p_df.latest.bb_position) /\ p_result.signals["bb_score"] = 25 * Scale
    /\ p_df.latest.volatility = 60
    /\ p_result.score = 2250

----------------------------------------------------------------------------
(* The value strategy end to end, checked under SpecServe *)

ValueTiers == {30 * Scale, 40 * Scale, 45 * Scale, 50 * Scale}

----------------------------------------------------------------------------
(* Claims about the day loop, checked under Spec *)

\* the feature series of a symbol truncated at the trade date before date
\* number t (t >= 1): its t rows, the last one and the one before it
SeriesUpTo(t, s) ==
    [len |-> t, latest |-> all_data[t][s].feat,
     prev |-> IF t >= 2 THEN all_data[t - 1][s].feat ELSE all_data[t][s].feat]

\* C31: the score run_backtest records for an instrument on day t equals
\* the score predict returns on that instrument's feature series truncated
\* at day t-1, which under the balanced strategy includes the MACD crossover
\* of day t-1 against the bar before it.
C31_ScoreOfTruncatedSeries ==
    \A k \in {i} \ {0, 1} :
        \A s \in DOMAIN decision_history[k].scores :
            decision_history[k].scores[s] =
                round(PredictScore(strategy_type, SeriesUpTo(k - 1, s)), 2)

----------------------------------------------------------------------------
(* Claims about the metrics of a run, checked under SpecEngine *)

\* the days on which the portfolio entered an instrument: the holding of the
\* NAV point is an instrument other than the holding of the day before
EntryDays ==
    {k \in 2..Len(nav_history) :
        /\ nav_history[k].holding # CASH
        /\ nav_history[k].holding # nav_history[k - 1].holding}

CashPoints == {k \in 1..Len(nav_history) : nav_history[k].holding = CASH}

BuyRecords == {k \in 1..Len(trade_log) : trade_log[k].action = "BUY"}

\* C35 as stated: trade_count is the number of BUY records of the run, which
\* is the number of days on which the portfolio entered an instrument, and
\* cash_ratio is 100 times the number of cash NAV points divided by the
\* number of NAV points.
C35_CountsExact ==
    ret.kind = "metrics" =>
        /\ ret.trade_count = Cardinality(BuyRecords)
        /\ ret.trade_count = Cardinality(EntryDays)
        /\ ret.cash_ratio * Len(nav_history) = 100 * Scale * Cardinality(CashPoints)

\* C35, amended: the same counts, with cash_ratio rounded to two decimals.
C35_CountsRounded ==
    ret.kind = "metrics" =>
        /\ ret.trade_count = Cardinality(BuyRecords)
        /\ ret.trade_count = Cardinality(EntryDays)
        /\ ret.cash_ratio = PctRound(Cardinality(CashPoints), Len(nav_history))

\* a run of three days that bought and then switched: one cash day in
\* three, returned as 33.33
C35_Witness ==
    /\ ret.kind = "metrics"
    /\ Len(nav_history) = 3
    /\ ret.trade_count = 2
    /\ nav_history[2].holding # nav_history[3].holding
    /\ ret.cash_ratio = 33330

\* C38: for every day t > 0 the decision's prev_holding is the holding of the
\* NAV point of day t-1, and the holding of the NAV point of day t is that
\* day's decision target (an instrument code, or CASH).
C38_HoldingsChain ==
    \A k \in {i} \ {0, 1} :
        /\ decision_history[k].prev_holding = nav_history[k - 1].holding
        /\ nav_history[k].holding = decision_history[k].decision

\* a day that switched from one instrument to another
C38_Witness ==
    /\ i >= 3
    /\ decision_history[i].action = "SWITCH"
    /\ IsInstrument(decision_history[i].prev_holding)
    /\ nav_history[i].holding # nav_history[i - 1].holding
    /\ nav_history[i].holding = decision_history[i].decision

\* C39: on a day whose decision action is HOLD, run_backtest leaves the
\* current holding, holding_shares and the trade log unchanged, and changes
\* the cash balance only by the daily compounding of a day held in cash.
C39_HoldChangesNothing ==
    [][(i' = i + 1 /\ decision_history'[i'].action = "HOLD") =>
          /\ current_holding' = current_holding
          /\ holding_shares' = holding_shares
          /\ trade_log' = trade_log
          /\ cash_position' = IF current_holding = CASH THEN Compound(cash_position)
                               ELSE cash_position]_vars

\* an evaluated day that held on to its instrument
C39_Witness ==
    /\ i >= 3
    /\ decision_history[i].action = "HOLD"
    /\ IsInstrument(current_holding)
    /\ decision_history[i].prev_holding = current_holding
    /\ holding_shares > 0

====
